---- MODULE Spec2Model ----
(***************************************************************************)
(* Notion_HR: reconciliation of the "Employees" and "Leave Requests"       *)
(* tables.  The module models                                              *)
(*   - the identifier normalizers of the three script families             *)
(*     (normalizeNumber, normalizeCivilId, NotionSync.normalizeIdNumber);  *)
(*   - the pipeline of src/sync.js (schema detection, fetchEmployees,      *)
(*     fetchLeaveRequests, the per-request loop of syncNotionTables and    *)
(*     updateLeaveRequestSmart);                                           *)
(*   - the pipeline of the auto-detecting variant (detectLeaveSchema,      *)
(*     buildEmployeeIndex, fixLeaveRequests, buildPendingStatusUpdate);    *)
(*   - the retry wrappers withRetry and NotionSync.apiCallWithRetry;       *)
(*   - the field detection functions applied to schemas and option lists;  *)
(*   - the status e-mail script (src/send-status-emails.js and its copy);  *)
(*   - the pipeline of NotionSync (buildEmployeeIndex, syncLeaveRequests,  *)
(*     run and main).                                                      *)
(*                                                                         *)
(* Strings are sequences of characters.  A character is a one-token        *)
(* string: "0".."9" are the Western digits, "a0".."a9" the Eastern-Arabic  *)
(* digits U+0660..U+0669, "p0".."p9" the extended Arabic-Indic digits      *)
(* U+06F0..U+06F9, "d0".."d9" the Devanagari digits U+0966..U+096F, " "    *)
(* is white space, "-" a separator and anything else a letter.             *)
(***************************************************************************)
EXTENDS Integers, Sequences, FiniteSets, TLC

\* ------------------------------------------------------------------
\* Bounds of the model
\* ------------------------------------------------------------------
MaxLen == 2

MaxEmp == 2

MaxReq == 2

MaxPlanReq == 1

MaxRuns == 2

PageSize == 1

\* largest attempt ceiling handed to a retry wrapper
MaxCeiling == 5

\* longest schema and longest option list handed to the detection functions
MaxFields == 3

\* most failures of the mail transport and of the flag update in a behaviour
MaxFaults == 2

\* ------------------------------------------------------------------
\* JavaScript values: null, a number, or a string
\* ------------------------------------------------------------------
Null == [t |-> "null", n |-> 0, s |-> <<>>]

Num(k) == [t |-> "num", n |-> k, s |-> <<>>]

Str(q) == [t |-> "str", n |-> 0, s |-> q]

englishNumbers == <<"0", "1", "2", "3", "4", "5", "6", "7", "8", "9">>

arabicNumbers == <<"a0", "a1", "a2", "a3", "a4", "a5", "a6", "a7", "a8", "a9">>

hindiNumbers == <<"p0", "p1", "p2", "p3", "p4", "p5", "p6", "p7", "p8", "p9">>

hindiNumerals == <<"d0", "d1", "d2", "d3", "d4", "d5", "d6", "d7", "d8", "d9">>

Range(f) == {f[i] : i \in DOMAIN f}

\* the class \d of a JavaScript regular expression without the u flag
IsDigit(c) == c \in Range(englishNumbers)

\* the characters String.prototype.trim removes
IsSpace(c) == c = " "

RECURSIVE DecimalDigits(_)
DecimalDigits(k) ==
  IF k < 10 THEN <<englishNumbers[k + 1]>>
  ELSE DecimalDigits(k \div 10) \o <<englishNumbers[(k % 10) + 1]>>

\* String(v)
ToStringJS(v) ==
  CASE v.t = "null" -> <<"n", "u", "l", "l">>
    [] v.t = "num" -> DecimalDigits(v.n)
    [] OTHER -> v.s

\* !v
Falsy(v) == \/ v.t = "null"
            \/ v.t = "num" /\ v.n = 0
            \/ v.t = "str" /\ v.s = <<>>

\* s.replace(new RegExp(c, 'g'), r)
ReplaceAll(s, c, r) == [i \in DOMAIN s |-> IF s[i] = c THEN r ELSE s[i]]

\* the loop  for (i = 0; i < from.length; i++) s = s.replace(from[i] /g, to[i])
RECURSIVE ReplaceLoop(_, _, _, _)
ReplaceLoop(s, from, to, i) ==
  IF i > Len(from) THEN s
  ELSE ReplaceLoop(ReplaceAll(s, from[i], to[i]), from, to, i + 1)

RECURSIVE TrimLeft(_)
TrimLeft(s) == IF s # <<>> /\ IsSpace(Head(s)) THEN TrimLeft(Tail(s)) ELSE s

RECURSIVE TrimRight(_)
TrimRight(s) ==
  IF s # <<>> /\ IsSpace(s[Len(s)]) THEN TrimRight(SubSeq(s, 1, Len(s) - 1)) ELSE s

Trim(s) == TrimRight(TrimLeft(s))

\* s.replace(/[^\d]/g, "")  and  s.replace(/\D/g, '')
StripNonDigits(s) == SelectSeq(s, IsDigit)

\* ------------------------------------------------------------------
\* The identifier normalizers
\* ------------------------------------------------------------------
\* src/sync.js normalizeNumber: converts both Arabic digit ranges, trims,
\* and keeps every other character
normalizeNumber(str) ==
  IF Falsy(str) THEN Str(<<>>)
  ELSE Str(Trim(ReplaceLoop(ReplaceLoop(ToStringJS(str), arabicNumbers, englishNumbers, 1),
                            hindiNumbers, englishNumbers, 1)))

\* normalizeCivilId of the auto-detecting variant: /[U+0660-U+0669]/ to
\* Western, then every non-\d character removed
normalizeCivilId(value) ==
  IF value.t = "null" THEN Null
  ELSE LET s == Trim(StripNonDigits(ReplaceLoop(ToStringJS(value), arabicNumbers,
                                                 englishNumbers, 1)))
       IN IF Len(s) > 0 THEN Str(s) ELSE Null

normalizeIdNumberZeroPadded(idValue) ==
  IF Falsy(idValue) /\ ~(idValue.t = "num" /\ idValue.n = 0) THEN Null
  ELSE LET idStr == Trim(ToStringJS(idValue))
       IN IF idStr = <<>> THEN Null
          ELSE LET normalized ==
                     StripNonDigits(ReplaceLoop(ReplaceLoop(idStr, arabicNumbers,
                                                            englishNumbers, 1),
                                                hindiNumerals, englishNumbers, 1))
               IN IF normalized = <<>> THEN Null ELSE Str(<<"0">> \o normalized)

\* NotionSync.normalizeIdNumber: Eastern-Arabic and Devanagari digits to
\* Western, then every \D character removed
normalizeIdNumber(idValue) ==
  IF Falsy(idValue) /\ ~(idValue.t = "num" /\ idValue.n = 0) THEN Null
  ELSE LET idStr == Trim(ToStringJS(idValue))
       IN IF idStr = <<>> THEN Null
          ELSE LET normalized ==
                     StripNonDigits(ReplaceLoop(ReplaceLoop(idStr, arabicNumbers,
                                                            englishNumbers, 1),
                                                hindiNumerals, englishNumbers, 1))
               IN IF normalized = <<>> THEN Null ELSE Str(normalized)

\* ------------------------------------------------------------------
\* Page properties and extractIdNumber (src/sync.js)
\* ------------------------------------------------------------------
\* A property of a page: type is the Notion type ("formula" is split by the
\* formula's own tag), v the number / formula value, runs the plain_text of
\* the text runs of a title or rich_text.
NumberProp(v) == [type |-> "number", v |-> v, runs |-> <<>>]

TitleProp(runs) == [type |-> "title", v |-> Null, runs |-> runs]

RichTextProp(runs) == [type |-> "rich_text", v |-> Null, runs |-> runs]

FormulaStringProp(v) == [type |-> "formula_string", v |-> v, runs |-> <<>>]

FormulaNumberProp(v) == [type |-> "formula_number", v |-> v, runs |-> <<>>]

\* the field names of the tables, in ASCII:
\*   "raqm_alhawiya" = 'رقم الهوية', "raqm__alhawiya" = 'رقم_الهوية',
\*   "alraqm" = 'الرقم', "halat_altalab" = 'حالة الطلب'
possibleFields == <<"raqm_alhawiya", "raqm__alhawiya", "ID Number", "ID", "alraqm">>

MinRun == 9

MaxRun == 12

\* properties[fieldName]; a bag is the ordered list of <<name, property>>
HasField(properties, name) == \E k \in DOMAIN properties : properties[k].name = name

Field(properties, name) ==
  properties[CHOOSE k \in DOMAIN properties : properties[k].name = name].prop

RECURSIVE JoinRuns(_, _)
JoinRuns(runs, sep) ==
  IF runs = <<>> THEN <<>>
  ELSE IF Len(runs) = 1 THEN runs[1]
  ELSE runs[1] \o sep \o JoinRuns(Tail(runs), sep)

AllDigits(s, from, to) == \A k \in from..to : IsDigit(s[k])

\* s.match(/\d{9,12}/): the leftmost run of at least MinRun digits, cut
\* greedily at MaxRun; <<>> stands for "no match"
DigitRunMatch(s) ==
  LET starts == {k \in 1..Len(s) : k + MinRun - 1 <= Len(s) /\ AllDigits(s, k, k + MinRun - 1)}
  IN IF starts = {} THEN <<>>
     ELSE LET b == CHOOSE k \in starts : \A m \in starts : k <= m
              ends == {e \in (b + MinRun - 1)..Len(s) :
                         e - b + 1 <= MaxRun /\ AllDigits(s, b, e)}
              e == CHOOSE x \in ends : \A y \in ends : y <= x
          IN SubSeq(s, b, e)

\* the second loop of extractIdNumber over Object.values(properties)
RECURSIVE FallbackScan(_, _)
FallbackScan(properties, k) ==
  IF k > Len(properties) THEN Null
  ELSE LET prop == properties[k].prop
           m == CASE prop.type \in {"rich_text", "title"} /\ Len(prop.runs) > 0 ->
                       DigitRunMatch(JoinRuns(prop.runs, <<" ">>))
                  [] prop.type = "number" /\ ~Falsy(prop.v) ->
                       DigitRunMatch(ToStringJS(prop.v))
                  [] OTHER -> <<>>
       IN IF m # <<>> THEN Str(m) ELSE FallbackScan(properties, k + 1)

\* the first loop of extractIdNumber over possibleFields
RECURSIVE CandidateScan(_, _)
CandidateScan(properties, k) ==
  IF k > Len(possibleFields) THEN FallbackScan(properties, 1)
  ELSE IF ~HasField(properties, possibleFields[k]) THEN CandidateScan(properties, k + 1)
  ELSE LET prop == Field(properties, possibleFields[k])
       IN CASE prop.type = "number" ->
                 IF Falsy(prop.v) THEN Null ELSE Str(ToStringJS(prop.v))
            [] prop.type \in {"title", "rich_text"} /\ Len(prop.runs) > 0 ->
                 Str(Trim(JoinRuns(prop.runs, <<>>)))
            [] prop.type = "formula_string" -> prop.v
            [] prop.type = "formula_number" -> Str(ToStringJS(prop.v))
            [] OTHER -> CandidateScan(properties, k + 1)

extractIdNumber(properties) == CandidateScan(properties, 1)

\* ------------------------------------------------------------------
\* Schema detection and the default status (src/sync.js)
\* ------------------------------------------------------------------
EMPLOYEES_DB_ID == "employees_db"

OTHER_DB_ID == "other_db"

NoName == "null"

NoStatusProp == [name |-> NoName, kind |-> "none", options |-> <<>>]

RECURSIVE FirstField(_, _, _)
FirstField(props, Test(_), k) ==
  IF k > Len(props) THEN 0
  ELSE IF Test(props[k]) THEN k ELSE FirstField(props, Test, k + 1)

\* the first relation field of any target
findEmployeeRelationPropNameAny(props) ==
  LET anyRel == FirstField(props, LAMBDA d : d.type = "relation", 1)
  IN IF anyRel # 0 THEN props[anyRel].name ELSE NoName

\* both loops of findEmployeeRelationPropName over Object.entries(props)
findEmployeeRelationPropName(props) ==
  LET direct == FirstField(props, LAMBDA d : d.type = "relation" /\ d.target = EMPLOYEES_DB_ID, 1)
      anyRel == FirstField(props, LAMBDA d : d.type = "relation", 1)
  IN IF direct # 0 THEN props[direct].name
     ELSE IF anyRel # 0 THEN props[anyRel].name
     ELSE NoName

findStatusProp(props) ==
  LET st == FirstField(props, LAMBDA d : d.type = "status", 1)
      sel == FirstField(props, LAMBDA d : d.type = "select", 1)
  IN IF st # 0 THEN [name |-> props[st].name, kind |-> "status", options |-> props[st].options]
     ELSE IF sel # 0
          THEN [name |-> props[sel].name, kind |-> "select", options |-> props[sel].options]
     ELSE NoStatusProp

\* 'قيد الانتظار': two words and the space between them
desired == <<"qyd", " ", "alantzar">>

\* String.prototype.toLowerCase on the characters of the labels
ToLower(c) ==
  CASE c = "Not" -> "not"
    [] c = "Done" -> "done"
    [] c = "QYD" -> "qyd"
    [] OTHER -> c

normalizeLabel(s) ==
  LET noSpace == SelectSeq(s, LAMBDA c : ~IsSpace(c))
  IN [k \in DOMAIN noSpace |-> ToLower(noSpace[k])]

NoPick == [name |-> <<>>, exists |-> FALSE]

\* without the preference for the to_do group
pickPendingNameFirstOption(kind, options) ==
  LET hit == FirstField(options, LAMBDA o : normalizeLabel(o.name) = normalizeLabel(desired), 1)
  IN IF hit # 0 THEN [name |-> options[hit].name, exists |-> TRUE]
     ELSE IF kind = "select" THEN [name |-> desired, exists |-> FALSE]
     ELSE IF Len(options) > 0 THEN [name |-> options[1].name, exists |-> TRUE]
     ELSE NoPick

\* pickPendingName, lines 142-169
pickPendingName(kind, options) ==
  LET hit == FirstField(options, LAMBDA o : normalizeLabel(o.name) = normalizeLabel(desired), 1)
      toDo == FirstField(options, LAMBDA o : o.group = "to_do", 1)
  IN IF hit # 0 THEN [name |-> options[hit].name, exists |-> TRUE]
     ELSE IF kind = "select" THEN [name |-> desired, exists |-> FALSE]
     ELSE IF toDo # 0 THEN [name |-> options[toDo].name, exists |-> TRUE]
     ELSE IF Len(options) > 0 THEN [name |-> options[1].name, exists |-> TRUE]
     ELSE NoPick

\* ------------------------------------------------------------------
\* State
\* ------------------------------------------------------------------
VARIABLES
  nIn,      \* normalizer harness: the value handed to the normalizer
  nFn,      \* normalizer harness: the normalizer under application
  nOut,     \* normalizer harness: results of the 1st and 2nd application
  schema,           \* store: field catalog of the leave-request table
  employees,        \* store: records of the employee table, in query order
  requests,         \* store: records of the leave-request table, in query order
  pc,               \* position of syncNotionTables
  run,              \* number of the current run
  relationPropName, \* syncNotionTables: detected relation field
  statusProp,       \* syncNotionTables: detected status field
  employeesMap,     \* fetchEmployees: canonical key -> employee page id
  cursor,           \* start_cursor of the pagination loop in progress
  leaveRequests,    \* fetchLeaveRequests: the pages read
  idx,              \* index of the for loop over leaveRequests
  updatedCount,
  skippedCount,
  calls,            \* pages.update calls issued in the current run
  lookups,          \* keys handed to employeesMap.get in the current run
  exitCode,         \* process exit status, -1 while running
  requests0,        \* the leave-request table as it was when the run started
  prevOk,           \* the previous run completed and all its updates succeeded
  prevCalls,        \* pages.update calls issued in the previous run
  diag,             \* console messages of the current run, in order
  fpc,              \* auto-detecting variant: position of main
  fDetected,        \* detectLeaveSchema: the detected fields
  fIndex,           \* buildEmployeeIndex: canonical key -> employee page id
  fCursor,          \* start_cursor of the pagination loop in progress
  fRows,            \* fixLeaveRequests: the page of results being processed
  fRow,             \* index of the for loop over fRows
  fPlan,            \* fixLeaveRequests: the update awaiting its pages.update
  fTry,             \* withRetry: the loop variable i of the call in progress
  fWaits,           \* withRetry: the waits of the call in progress, in ms
  fCalls,           \* pages.update requests sent, one per attempt
  fExit,            \* process exit status, -1 while running
  fDiag,            \* console messages of the variant, in order
  wFn,              \* retry harness: the wrapper under application
  wArg,             \* retry harness: the attempt ceiling passed, -1 for none
  wErrs,            \* retry harness: kinds of the errors thrown by the call, in order
  wInvocations,     \* retry harness: number of invocations of the wrapped call
  wWaits,           \* retry harness: the waits between attempts, in ms
  wResult,          \* retry harness: "running", "returned <attempt>" or "raised <kind>"
  sPc,              \* NotionSync: position of run
  idToPageMap,      \* NotionSync: canonical key -> employee page id
  startCursor,      \* NotionSync: start_cursor of the while loop in progress
  sRows,            \* syncLeaveRequests: response.results of the current page
  sRow,             \* syncLeaveRequests: index of the for loop over sRows
  sPlan,            \* syncLeaveRequests: the update awaiting its pages.update
  sAttempt,         \* apiCallWithRetry: the loop variable of the call in progress
  sUpdatedCount,    \* syncLeaveRequests: updatedCount
  sSkippedCount,    \* syncLeaveRequests: skippedCount
  errorCount,       \* syncLeaveRequests: errorCount
  sCalls,           \* NotionSync: pages.update requests sent, one per attempt
  sFatal,           \* NotionSync: the function whose error reached run, or "none"
  sExit,            \* NotionSync: process exit status, -1 while running
  sDiag,            \* NotionSync: console messages, in order
  hIn,              \* detection harness: the schema or the option list handed over
  hFn,              \* detection harness: the function under application
  hOut,             \* detection harness: results of the 1st and 2nd call
  mScript,          \* e-mail script: which of the two copies runs
  mTable,           \* e-mail script: the leave-request table of the store
  mPc,              \* e-mail script: position of run
  mRun,             \* e-mail script: number of the current run
  mCursor,          \* fetchAllRequests: start_cursor of the do-while loop
  mRows,            \* run: the pages returned by fetchAllRequests
  mRow,             \* run: index of the for loop over the pages
  sent,             \* run: the counter sent
  skipped,          \* run: the counter skipped
  mDelivered,       \* e-mails the transport accepted, over all runs
  mFlagWrites,      \* setEmailFlag calls that succeeded, over all runs
  mFaults,          \* failures of the transport and of the store so far
  mExit             \* e-mail script: process exit status, -1 while running

normVars == <<nIn, nFn, nOut>>

storeVars == <<schema, employees, requests>>

runVars == <<pc, run, relationPropName, statusProp, employeesMap, cursor, leaveRequests,
             idx, updatedCount, skippedCount, calls, lookups, exitCode, requests0, prevOk,
             prevCalls, diag>>

fixVars == <<fpc, fDetected, fIndex, fCursor, fRows, fRow, fPlan, fTry, fWaits, fCalls, fExit,
             fDiag>>

retryVars == <<wFn, wArg, wErrs, wInvocations, wWaits, wResult>>

syncVars == <<sPc, idToPageMap, startCursor, sRows, sRow, sPlan, sAttempt, sUpdatedCount,
              sSkippedCount, errorCount, sCalls, sFatal, sExit, sDiag>>

vars == <<nIn, nFn, nOut, schema, employees, requests, pc, run, relationPropName,
          statusProp, employeesMap, cursor, leaveRequests, idx, updatedCount,
          skippedCount, calls, lookups, exitCode, requests0, prevOk, prevCalls, diag,
          fpc, fDetected, fIndex, fCursor, fRows, fRow, fPlan, fTry, fWaits, fCalls, fExit,
          fDiag, wFn, wArg, wErrs, wInvocations, wWaits, wResult, sPc, idToPageMap,
          startCursor, sRows, sRow, sPlan, sAttempt, sUpdatedCount, sSkippedCount,
          errorCount, sCalls, sFatal, sExit, sDiag, hIn, hFn, hOut, mScript, mTable,
          mPc, mRun, mCursor, mRows, mRow, sent, skipped, mDelivered, mFlagWrites,
          mFaults, mExit>>

EmptyMap == [k \in {} |-> ""]

\* the pipeline at rest, before any run
IdleRun ==
  /\ pc = "idle"
  /\ run = 0
  /\ relationPropName = NoName
  /\ statusProp = NoStatusProp
  /\ employeesMap = EmptyMap
  /\ cursor = 1
  /\ leaveRequests = <<>>
  /\ idx = 1
  /\ updatedCount = 0
  /\ skippedCount = 0
  /\ calls = <<>>
  /\ lookups = {}
  /\ exitCode = -1
  /\ requests0 = <<>>
  /\ prevOk = FALSE
  /\ prevCalls = <<>>
  /\ diag = <<>>

NoDetected ==
  [relationProp |-> NoName, statusProp |-> NoStatusProp, employeeIdProp |-> NoName]

NoPlan == [page_id |-> NoName, properties |-> {}]

IdleFix ==
  /\ fpc = "idle"
  /\ fDetected = NoDetected
  /\ fIndex = EmptyMap
  /\ fCursor = 1
  /\ fRows = <<>>
  /\ fRow = 1
  /\ fPlan = NoPlan
  /\ fTry = 0
  /\ fWaits = <<>>
  /\ fCalls = <<>>
  /\ fExit = -1
  /\ fDiag = <<>>

\* no wrapper under application
IdleRetry ==
  /\ wFn = "none"
  /\ wArg = -1
  /\ wErrs = <<>>
  /\ wInvocations = 0
  /\ wWaits = <<>>
  /\ wResult = [state |-> "idle", attempt |-> 0, error |-> "none"]

detVars == <<hIn, hFn, hOut>>

mailVars == <<mScript, mTable, mPc, mRun, mCursor, mRows, mRow, sent, skipped, mDelivered,
              mFlagWrites, mFaults, mExit>>

\* the e-mail script before its first run, on an empty table
IdleMail ==
  /\ mScript = "none"
  /\ mTable = <<>>
  /\ mPc = "idle"
  /\ mRun = 0
  /\ mCursor = 1
  /\ mRows = <<>>
  /\ mRow = 1
  /\ sent = 0
  /\ skipped = 0
  /\ mDelivered = <<>>
  /\ mFlagWrites = <<>>
  /\ mFaults = 0
  /\ mExit = -1

NoInput == [props |-> <<>>, kind |-> "none", options |-> <<>>]

\* no detection function under application
IdleDet ==
  /\ hIn = NoInput
  /\ hFn = "none"
  /\ hOut = <<>>

\* NotionSync before main is started
IdleSync ==
  /\ sPc = "idle"
  /\ idToPageMap = EmptyMap
  /\ startCursor = 1
  /\ sRows = <<>>
  /\ sRow = 1
  /\ sPlan = NoPlan
  /\ sAttempt = 0
  /\ sUpdatedCount = 0
  /\ sSkippedCount = 0
  /\ errorCount = 0
  /\ sCalls = <<>>
  /\ sFatal = "none"
  /\ sExit = -1
  /\ sDiag = <<>>

IdleNorm ==
  /\ nIn = Null
  /\ nFn = "none"
  /\ nOut = <<>>

\* ------------------------------------------------------------------
\* Inputs of the normalizers
\* ------------------------------------------------------------------
NormAlphabet == {"0", "1", "a0", "a1", "p1", "d1", "x", " ", "-"}

RECURSIVE StringsOver(_, _)
StringsOver(A, k) ==
  IF k = 0 THEN {<<>>}
  ELSE LET shorter == StringsOver(A, k - 1)
       IN shorter \cup {Append(s, c) : s \in {q \in shorter : Len(q) = k - 1}, c \in A}

EasternSample == <<"a0", "a1", "a2", "a3">>

PersianSample == <<"p0", "p1", "p2", "p3">>

WesternSample == <<"0", "1", "2", "3">>

LetterSample == <<"a", "b", "c">>

NormSamples == {EasternSample, PersianSample, WesternSample, LetterSample}

NormNumbers == {0, 7, 10, 123}

NormInputs ==
  {Null} \cup {Num(k) : k \in NormNumbers}
         \cup {Str(s) : s \in StringsOver(NormAlphabet, MaxLen) \cup NormSamples}

ApplyNormalizer(fn, v) ==
  CASE fn = "normalizeNumber" -> normalizeNumber(v)
    [] fn = "normalizeCivilId" -> normalizeCivilId(v)
    [] OTHER -> normalizeIdNumber(v)

InitNorm ==
  /\ nIn \in NormInputs
  /\ nFn = "none"
  /\ nOut = <<>>
  /\ schema = <<>>
  /\ employees = <<>>
  /\ requests = <<>>
  /\ IdleRun
  /\ IdleFix
  /\ IdleRetry
  /\ IdleSync
  /\ IdleDet
  /\ IdleMail

\* normalize(x), then normalize(normalize(x))
CallNormalizer(fn) ==
  /\ nFn \in {"none", fn}
  /\ Len(nOut) < 2
  /\ nFn' = fn
  /\ nOut' = Append(nOut, ApplyNormalizer(fn, IF nOut = <<>> THEN nIn ELSE nOut[Len(nOut)]))
  /\ UNCHANGED <<nIn, storeVars, runVars, fixVars, retryVars, syncVars, detVars, mailVars>>

CallNormalizeNumber == CallNormalizer("normalizeNumber")

CallNormalizeCivilId == CallNormalizer("normalizeCivilId")

CallNormalizeIdNumber == CallNormalizer("normalizeIdNumber")

NextNorm == CallNormalizeNumber \/ CallNormalizeCivilId \/ CallNormalizeIdNumber

SpecNorm == InitNorm /\ [][NextNorm]_vars

\* ------------------------------------------------------------------
\* The store: query pagination and pages.update
\* ------------------------------------------------------------------
Undef == [t |-> "undef", n |-> 0, s |-> <<>>]

Min(a, b) == IF a < b THEN a ELSE b

\* databases.query with start_cursor c: at most PageSize records
QueryPage(table, c) == SubSeq(table, c, Min(Len(table), c + PageSize - 1))

\* the store never announces a further page
HasMoreNever(table, c) == FALSE

\* response.has_more
HasMore(table, c) == c + PageSize - 1 < Len(table)

\* the relation is written under the name of another field
RelationEntryMisnamed(field, ids) ==
  [field |-> "Project", kind |-> "relation", relation |-> ids, name |-> <<>>]

\* the entries of the properties argument of pages.update
RelationEntry(field, ids) ==
  [field |-> field, kind |-> "relation", relation |-> ids, name |-> <<>>]

OptionEntry(field, kind, name) ==
  [field |-> field, kind |-> kind, relation |-> <<>>, name |-> name]

\* what a successful pages.update leaves in the record
PatchRecord(r, properties) ==
  [r EXCEPT
     !.rel = [f \in DOMAIN r.rel |->
                IF \E e \in properties : e.field = f /\ e.kind = "relation"
                THEN (CHOOSE e \in properties : e.field = f /\ e.kind = "relation").relation
                ELSE r.rel[f]],
     !.st = [f \in DOMAIN r.st |->
               IF \E e \in properties : e.field = f /\ e.kind # "relation"
               THEN Str((CHOOSE e \in properties : e.field = f /\ e.kind # "relation").name)
               ELSE r.st[f]]]

PatchTable(table, pageId, properties) ==
  [k \in DOMAIN table |->
     IF table[k].id = pageId THEN PatchRecord(table[k], properties) ELSE table[k]]

\* the store refuses a property the table does not have and an option that
\* is not in the closed set of a status field
StoreAccepts(props, properties) ==
  \A e \in properties :
    /\ \E k \in DOMAIN props : props[k].name = e.field
    /\ e.kind = "status" =>
         \E k \in DOMAIN props : /\ props[k].name = e.field
                                 /\ \E o \in Range(props[k].options) : o.name = e.name

\* a select option that does not exist yet is created by the store
PatchSchema(props, properties) ==
  [k \in DOMAIN props |->
     IF /\ props[k].type = "select"
        /\ \E e \in properties : /\ e.field = props[k].name
                                 /\ e.kind = "select"
                                 /\ \A o \in Range(props[k].options) : o.name # e.name
     THEN [props[k] EXCEPT !.options =
             Append(@, [name |-> (CHOOSE e \in properties :
                                    e.field = props[k].name /\ e.kind = "select").name,
                        group |-> "none"])]
     ELSE props[k]]

\* ------------------------------------------------------------------
\* fetchEmployees, the request loop and updateLeaveRequestSmart (src/sync.js)
\* ------------------------------------------------------------------
MapSetKeepFirst(map, key, value) ==
  [k \in DOMAIN map \cup {key} |-> IF k \in DOMAIN map THEN map[k] ELSE value]

\* employeesMap.set(normalizedId, page.id): a later page replaces an earlier one
MapSet(map, key, value) ==
  [k \in DOMAIN map \cup {key} |-> IF k = key THEN value ELSE map[k]]

\* the for loop of fetchEmployees over one page of results
RECURSIVE IndexPage(_, _, _)
IndexPage(map, page, k) ==
  IF k > Len(page) THEN map
  ELSE LET idNumber == extractIdNumber(page[k].props)
       IN IF Falsy(idNumber) THEN IndexPage(map, page, k + 1)
          ELSE IndexPage(MapSet(map, normalizeNumber(idNumber).s, page[k].id), page, k + 1)

\* a console message: its kind and the key or page id it names
Event(kind, key) == [kind |-> kind, key |-> key]

\* the messages of the for loop of fetchEmployees over one page: one line
\* per employee added, line 192
RECURSIVE AddedEvents(_, _)
AddedEvents(page, k) ==
  IF k > Len(page) THEN <<>>
  ELSE LET idNumber == extractIdNumber(page[k].props)
       IN IF Falsy(idNumber) THEN AddedEvents(page, k + 1)
          ELSE <<Event("employee_added", normalizeNumber(idNumber).s)>>
                 \o AddedEvents(page, k + 1)

\* the warning of updateLeaveRequestSmart when no option can be picked
StatusWarning(sp, setStatusToPending) ==
  IF setStatusToPending /\ sp # NoStatusProp /\ pickPendingName(sp.kind, sp.options).name = <<>>
  THEN <<Event("no_status_option", <<>>)>> ELSE <<>>

needsStatusUpdateAlways(sp, request) == sp # NoStatusProp

\* lines 336-347
needsStatusUpdate(sp, request) ==
  /\ sp # NoStatusProp
  /\ LET p == request.st[sp.name]
     IN \/ p = Undef
        \/ sp.kind = "status" /\ p = Null
        \/ sp.kind = "select" /\ p = Null

needsRelationUpdateAlways(relName, request, employeePageId) == relName # NoName

\* lines 350-356
needsRelationUpdate(relName, request, employeePageId) ==
  /\ relName # NoName
  /\ ~(Len(request.rel[relName]) > 0 /\ request.rel[relName][1] = employeePageId)

PlanPropertiesWrongPage(requestId, employeePageId, relName, sp, setStatusToPending) ==
  (IF employeePageId # NoName /\ relName # NoName
     THEN {RelationEntry(relName, <<requestId>>)} ELSE {})
  \cup
  (IF setStatusToPending /\ sp # NoStatusProp /\ pickPendingName(sp.kind, sp.options).name # <<>>
     THEN {OptionEntry(sp.name, sp.kind, pickPendingName(sp.kind, sp.options).name)}
     ELSE {})

\* the properties object built by updateLeaveRequestSmart, lines 236-256
PlanProperties(requestId, employeePageId, relName, sp, setStatusToPending) ==
  (IF employeePageId # NoName /\ relName # NoName
     THEN {RelationEntry(relName, <<employeePageId>>)} ELSE {})
  \cup
  (IF setStatusToPending /\ sp # NoStatusProp /\ pickPendingName(sp.kind, sp.options).name # <<>>
     THEN {OptionEntry(sp.name, sp.kind, pickPendingName(sp.kind, sp.options).name)}
     ELSE {})

\* syncNotionTables is started (a first run, or a run after a finished one)
StartRun ==
  /\ pc \in {"idle", "done", "failed"}
  /\ run < MaxRuns
  /\ pc' = "schema"
  /\ run' = run + 1
  /\ prevOk' = (pc = "done" /\ \A k \in DOMAIN calls : calls[k].ok)
  /\ prevCalls' = calls
  /\ relationPropName' = NoName
  /\ statusProp' = NoStatusProp
  /\ employeesMap' = EmptyMap
  /\ cursor' = 1
  /\ leaveRequests' = <<>>
  /\ idx' = 1
  /\ updatedCount' = 0
  /\ skippedCount' = 0
  /\ calls' = <<>>
  /\ lookups' = {}
  /\ exitCode' = -1
  /\ requests0' = requests
  /\ diag' = <<>>
  /\ UNCHANGED <<normVars, retryVars, syncVars, detVars, mailVars, fixVars, storeVars>>

\* lines 278-296: databases.retrieve and the detection of the two fields
GetSchema ==
  /\ pc = "schema"
  /\ relationPropName' = findEmployeeRelationPropName(schema)
  /\ statusProp' = findStatusProp(schema)
  /\ cursor' = 1
  /\ pc' = "employees"
  /\ diag' = diag
              \o (IF findEmployeeRelationPropName(schema) = NoName
                    THEN <<Event("no_relation_field", <<>>)>> ELSE <<>>)
              \o (IF findStatusProp(schema) = NoStatusProp
                    THEN <<Event("no_status_field", <<>>)>> ELSE <<>>)
  /\ UNCHANGED <<normVars, retryVars, syncVars, detVars, mailVars, fixVars, storeVars, run, employeesMap, leaveRequests, idx, updatedCount,
                 skippedCount, calls, lookups, exitCode, requests0, prevOk, prevCalls>>

\* one iteration of the while loop of fetchEmployees; after the last page,
\* lines 300-303 of syncNotionTables
FetchEmployeesPage ==
  /\ pc = "employees"
  /\ LET map == IndexPage(employeesMap, QueryPage(employees, cursor), 1)
     IN /\ employeesMap' = map
        /\ IF HasMore(employees, cursor)
           THEN /\ cursor' = cursor + PageSize
                /\ pc' = "employees"
                /\ exitCode' = exitCode
                /\ diag' = diag \o AddedEvents(QueryPage(employees, cursor), 1)
           ELSE /\ cursor' = 1
                /\ pc' = IF DOMAIN map = {} THEN "done" ELSE "requests"
                /\ exitCode' = IF DOMAIN map = {} THEN 0 ELSE exitCode
                /\ diag' = diag \o AddedEvents(QueryPage(employees, cursor), 1)
                             \o (IF DOMAIN map = {} THEN <<Event("no_employees", <<>>)>>
                                  ELSE <<>>)
  /\ UNCHANGED <<normVars, retryVars, syncVars, detVars, mailVars, fixVars, storeVars, run, relationPropName, statusProp, leaveRequests, idx,
                 updatedCount, skippedCount, calls, lookups, requests0, prevOk, prevCalls>>

\* one iteration of the while loop of fetchLeaveRequests; after the last
\* page, lines 307-310 of syncNotionTables
FetchLeaveRequestsPage ==
  /\ pc = "requests"
  /\ LET read == leaveRequests \o QueryPage(requests, cursor)
     IN /\ leaveRequests' = read
        /\ IF HasMore(requests, cursor)
           THEN /\ cursor' = cursor + PageSize
                /\ pc' = "requests"
                /\ exitCode' = exitCode
                /\ diag' = diag
           ELSE /\ cursor' = 1
                /\ pc' = IF read = <<>> THEN "done" ELSE "loop"
                /\ exitCode' = IF read = <<>> THEN 0 ELSE exitCode
                /\ diag' = IF read = <<>> THEN Append(diag, Event("no_requests", <<>>))
                           ELSE diag
  /\ idx' = 1
  /\ UNCHANGED <<normVars, retryVars, syncVars, detVars, mailVars, fixVars, storeVars, run, relationPropName, statusProp, employeesMap,
                 updatedCount, skippedCount, calls, lookups, requests0, prevOk, prevCalls>>

\* a remote read (databases.retrieve or databases.query) throws: the catch
\* block of syncNotionTables rethrows and the runner exits with status 1
RemoteReadFails ==
  /\ pc \in {"schema", "employees", "requests"}
  /\ pc' = "failed"
  /\ exitCode' = 1
  /\ diag' = Append(diag, Event("sync_failed", <<>>))
  /\ UNCHANGED <<normVars, retryVars, syncVars, detVars, mailVars, fixVars, storeVars, run, relationPropName, statusProp, employeesMap, cursor,
                 leaveRequests, idx, updatedCount, skippedCount, calls, lookups, requests0,
                 prevOk, prevCalls>>

\* notion.pages.update({ page_id, properties }) sent once per property
pagesUpdatePerField(log, requestId, properties, ok) ==
  LET rel == {e \in properties : e.kind = "relation"}
      opt == properties \ rel
  IN log \o (IF rel = {} THEN <<>>
             ELSE <<[page_id |-> requestId, properties |-> rel, ok |-> ok]>>)
         \o (IF opt = {} THEN <<>>
             ELSE <<[page_id |-> requestId, properties |-> opt, ok |-> ok]>>)

\* notion.pages.update({ page_id: requestId, properties }), line 261: one
\* call carrying the whole properties object
pagesUpdate(log, requestId, properties, ok) ==
  Append(log, [page_id |-> requestId, properties |-> properties, ok |-> ok])

\* a request without a usable identifier ends the run with an error
SkipRecordAbort(kind, key) ==
  /\ pc' = "failed"
  /\ exitCode' = 1
  /\ diag' = Append(diag, Event(kind, key))
  /\ UNCHANGED <<skippedCount, updatedCount, calls, requests, schema>>

\* console.log, skippedCount++ and continue: lines 321-323, 329-331, 372-373
SkipRecord(kind, key) ==
  /\ skippedCount' = skippedCount + 1
  /\ diag' = Append(diag, Event(kind, key))
  /\ UNCHANGED <<pc, exitCode, updatedCount, calls, requests, schema>>

\* one iteration of the for loop of syncNotionTables, lines 317-377,
\* with the call of updateLeaveRequestSmart it makes
ProcessRequest ==
  /\ pc = "loop"
  /\ idx <= Len(leaveRequests)
  /\ idx' = idx + 1
  /\ LET request == leaveRequests[idx]
         requestIdNumber == extractIdNumber(request.props)
         normalizedRequestId == normalizeNumber(requestIdNumber).s
     IN IF Falsy(requestIdNumber)
        THEN /\ SkipRecord("request_without_id", request.id)
             /\ UNCHANGED lookups
        ELSE /\ lookups' = lookups \cup {normalizedRequestId}
             /\ IF normalizedRequestId \notin DOMAIN employeesMap
                THEN SkipRecord("employee_not_found", normalizedRequestId)
                ELSE LET employeePageId == employeesMap[normalizedRequestId]
                         needsStatus == needsStatusUpdate(statusProp, request)
                         needsRelation ==
                           needsRelationUpdate(relationPropName, request, employeePageId)
                         properties ==
                           PlanProperties(request.id,
                                          IF needsRelation THEN employeePageId ELSE NoName,
                                          relationPropName, statusProp, needsStatus)
                     IN IF needsRelation \/ needsStatus
                        THEN IF properties = {}
                             THEN /\ diag' = diag \o StatusWarning(statusProp, needsStatus)
                                  /\ UNCHANGED <<pc, exitCode, updatedCount, skippedCount,
                                                 calls, requests, schema>>
                             ELSE \E ok \in IF StoreAccepts(schema, properties)
                                                THEN BOOLEAN ELSE {FALSE} :
                                    /\ calls' = pagesUpdate(calls, request.id, properties, ok)
                                    /\ requests' = IF ok
                                                   THEN PatchTable(requests, request.id,
                                                                   properties)
                                                   ELSE requests
                                    /\ schema' = IF ok THEN PatchSchema(schema, properties)
                                                 ELSE schema
                                    /\ updatedCount' = IF ok THEN updatedCount + 1
                                                       ELSE updatedCount
                                    /\ diag' = Append(diag \o StatusWarning(statusProp,
                                                                             needsStatus),
                                                      Event(IF ok THEN "updated"
                                                            ELSE "update_failed", request.id))
                                    /\ UNCHANGED <<pc, exitCode, skippedCount>>
                        ELSE SkipRecord("already_up_to_date", normalizedRequestId)
  /\ UNCHANGED <<normVars, retryVars, syncVars, detVars, mailVars, fixVars, employees, run, relationPropName, statusProp,
                 employeesMap, cursor, leaveRequests, requests0, prevOk, prevCalls>>

\* lines 379-386 and the runner: the summary is printed, exit status 0
Summary ==
  /\ pc = "loop"
  /\ idx > Len(leaveRequests)
  /\ pc' = "done"
  /\ exitCode' = 0
  /\ diag' = Append(diag, Event("summary", <<>>))
  /\ UNCHANGED <<normVars, retryVars, syncVars, detVars, mailVars, fixVars, storeVars, run, relationPropName, statusProp, employeesMap, cursor,
                 leaveRequests, idx, updatedCount, skippedCount, calls, lookups, requests0,
                 prevOk, prevCalls>>

Next ==
  \/ StartRun
  \/ GetSchema
  \/ FetchEmployeesPage
  \/ FetchLeaveRequestsPage
  \/ RemoteReadFails
  \/ ProcessRequest
  \/ Summary

\* ------------------------------------------------------------------
\* Initial tables
\* ------------------------------------------------------------------
Option(name, group) == [name |-> name, group |-> group]

RelationField(name, target) ==
  [name |-> name, type |-> "relation", target |-> target, options |-> <<>>]

ChoiceField(name, type, options) ==
  [name |-> name, type |-> type, target |-> "", options |-> options]

approve == <<"mwafqa">>

reject == <<"mrfwda">>

PendingOptions == <<Option(desired, "to_do"), Option(approve, "complete"),
                    Option(reject, "complete")>>

TodoOptions == <<Option(<<"Done">>, "complete"), Option(<<"Not", " ", "started">>, "to_do")>>

DoneOptions == <<Option(<<"Done">>, "complete")>>

VariantOptions == <<Option(approve, "none"), Option(<<"QYD", "alantzar">>, "none")>>

BasicSchema ==
  <<RelationField("Employee", EMPLOYEES_DB_ID),
    ChoiceField("halat_altalab", "status", PendingOptions)>>

Schemas ==
  { BasicSchema,
    <<RelationField("Project", OTHER_DB_ID), RelationField("Employee", EMPLOYEES_DB_ID),
      ChoiceField("Status", "status", TodoOptions)>>,
    <<RelationField("Project", OTHER_DB_ID), ChoiceField("Type", "select", <<>>)>>,
    <<ChoiceField("Type", "select", VariantOptions),
      ChoiceField("Status", "status", DoneOptions)>>,
    <<RelationField("Employee", EMPLOYEES_DB_ID), ChoiceField("Status", "status", <<>>)>>,
    <<RelationField("Employee", EMPLOYEES_DB_ID)>>,
    <<RelationField("Employee", EMPLOYEES_DB_ID),
      ChoiceField("Type", "select", VariantOptions)>> }

ThirteenDigits == <<"9", "1", "2", "3", "4", "5", "6", "7", "8", "9", "0", "1", "2">>

\* identifier texts: Western, Eastern-Arabic and extended Arabic-Indic
\* writings of 12, another number, a separated and a blank text
IdTexts ==
  { <<"1", "2">>, <<"a1", "a2">>, <<"p1", "p2">>, <<"3", "4">>,
    <<"1", "-", "2">>, <<" ">>, <<"0", "1", "2">> }

\* the identifier-bearing part of a page's property bag
IdBags ==
  {<<>>}
  \cup {<<[name |-> "raqm_alhawiya", prop |-> TitleProp(<<t>>)]>> : t \in IdTexts}
  \cup {<<[name |-> "ID", prop |-> RichTextProp(<<<<"1">>, <<"2">>>>)]>>,
        <<[name |-> "raqm_alhawiya", prop |-> TitleProp(<<>>)],
          [name |-> "ID", prop |-> NumberProp(Num(12))]>>,
        <<[name |-> "raqm_alhawiya", prop |-> NumberProp(Null)],
          [name |-> "ID", prop |-> NumberProp(Num(12))]>>,
        <<[name |-> "ID Number", prop |-> NumberProp(Num(34))]>>,
        <<[name |-> "ID Number", prop |-> NumberProp(Num(0))]>>,
        <<[name |-> "alraqm", prop |-> FormulaStringProp(Str(<<" ">>))]>>,
        <<[name |-> "alraqm", prop |-> FormulaStringProp(Str(<<"a1", "2", " ">>))]>>,
        <<[name |-> "raqm__alhawiya", prop |-> FormulaStringProp(Null)]>>,
        <<[name |-> "raqm__alhawiya", prop |-> FormulaNumberProp(Num(12))]>>,
        <<[name |-> "raqm__alhawiya", prop |-> FormulaNumberProp(Null)]>>,
        <<[name |-> "Notes", prop |-> RichTextProp(<<<<"x">>, ThirteenDigits>>)]>>,
        <<[name |-> "Notes", prop |-> TitleProp(<<<<"1", "2">>>>)],
          [name |-> "Civil", prop |-> NumberProp(Num(123456789))]>>}

PlainBag == <<[name |-> "raqm_alhawiya", prop |-> TitleProp(<<<<"1", "2">>>>)]>>

EmployeeId(k) == CASE k = 1 -> "e1" [] k = 2 -> "e2" [] k = 3 -> "e3" [] OTHER -> "e4"

RequestId(k) == CASE k = 1 -> "r1" [] k = 2 -> "r2" [] k = 3 -> "r3" [] OTHER -> "r4"

\* the bags of f that are not in the plain pool
Unusual(f, plain) == {k \in DOMAIN f : f[k] \notin plain}

\* tables of at most n records whose bags are drawn from a pool, at most
\* one of them outside the plain bags
EmployeeTables(bags, plain, n) ==
  UNION {{[k \in 1..m |-> [id |-> EmployeeId(k), props |-> f[k]]] :
            f \in {g \in [1..m -> bags] : Cardinality(Unusual(g, plain)) <= 1}} :
           m \in 0..n}

RelFields(props) == {props[k].name : k \in {j \in DOMAIN props : props[j].type = "relation"}}

ChoiceFields(props) ==
  {props[k].name : k \in {j \in DOMAIN props : props[j].type \in {"status", "select"}}}

FieldDef(props, name) == props[CHOOSE k \in DOMAIN props : props[k].name = name]

\* the values a relation field starts with
RelationValues(props, name) ==
  IF FieldDef(props, name).target = EMPLOYEES_DB_ID
  THEN {<<>>, <<"e1">>, <<"e2">>, <<"e2", "e1">>}
  ELSE {<<>>, <<"e1">>}

\* the values a status or select field starts with: unset, absent from
\* the page, or the last option of the field
ChoiceValues(props, name) ==
  LET d == FieldDef(props, name)
  IN {Null, Undef} \cup
     (IF d.options = <<>> THEN {} ELSE {Str(d.options[Len(d.options)].name)})

RequestRecords(props, bags) ==
  {[props |-> b, rel |-> r, st |-> c] :
     b \in bags,
     r \in {f \in [RelFields(props) -> UNION {RelationValues(props, n) : n \in RelFields(props)}] :
              \A n \in RelFields(props) : f[n] \in RelationValues(props, n)},
     c \in {f \in [ChoiceFields(props) -> UNION {ChoiceValues(props, n) : n \in ChoiceFields(props)}] :
              \A n \in ChoiceFields(props) : f[n] \in ChoiceValues(props, n)}}

RequestTables(records, plain, n) ==
  UNION {{[k \in 1..m |-> [id |-> RequestId(k), props |-> f[k].props, rel |-> f[k].rel,
                           st |-> f[k].st]] :
            f \in {g \in [1..m -> records] :
                     Cardinality(Unusual([k \in 1..m |-> g[k].props], plain)) <= 1}} :
           m \in 0..n}

\* requests of the basic schema with nothing linked and no status yet
FreshRequests(bags) ==
  {r \in RequestRecords(BasicSchema, bags) :
     r.rel["Employee"] = <<>> /\ r.st["halat_altalab"] = Null}

NumberBag == <<[name |-> "ID", prop |-> NumberProp(Num(34))]>>

PlainBags == {PlainBag, NumberBag}

TwoEmployees ==
  <<[id |-> "e1", props |-> <<[name |-> "raqm_alhawiya", prop |-> TitleProp(<<<<"a1", "a2">>>>)]>>],
    [id |-> "e2", props |-> <<[name |-> "ID", prop |-> NumberProp(Num(34))]>>]>>

\* identifiers of every shape in the employee table, requests that all
\* carry the same plain identifier
InitEmployeeIdentifiers ==
  /\ schema = BasicSchema
  /\ employees \in EmployeeTables(IdBags \cup PlainBags, PlainBags, MaxEmp)
  /\ requests \in RequestTables(FreshRequests({PlainBag}), PlainBags, MaxPlanReq)

\* identifiers of every shape in the leave-request table
InitRequestIdentifiers ==
  /\ schema = BasicSchema
  /\ employees = TwoEmployees
  /\ requests \in RequestTables(FreshRequests(IdBags), PlainBags, MaxReq)

\* every schema, every starting value of the relation and status fields
InitPlans ==
  /\ schema \in Schemas
  /\ employees = TwoEmployees
  /\ requests \in RequestTables(RequestRecords(schema, {PlainBag}), PlainBags, MaxPlanReq)

Init ==
  /\ InitEmployeeIdentifiers \/ InitRequestIdentifiers \/ InitPlans
  /\ IdleNorm
  /\ IdleRun
  /\ IdleFix
  /\ IdleRetry
  /\ IdleSync
  /\ IdleDet
  /\ IdleMail

Spec == Init /\ [][Next]_vars

\* ------------------------------------------------------------------
\* The auto-detecting variant: detectLeaveSchema, buildEmployeeIndex,
\* fixLeaveRequests, withRetry
\* ------------------------------------------------------------------
PREFERRED_EMPLOYEE_ID_PROP == "raqm_alhawiya"

PREFERRED_STATUS_PROP == "halat_altalab"

PENDING_STATUS_VALUE == desired

Retries == 3

WaitStep == 2000

WaitCap == 8000

NoProp == [type |-> "none", v |-> Null, runs |-> <<>>]

\* row.properties[name], undefined when the page has no such property
PropOf(properties, name) == IF HasField(properties, name) THEN Field(properties, name) ELSE NoProp

\* x?.[0]?.plain_text
FirstPlainText(runs) == IF Len(runs) > 0 THEN Str(runs[1]) ELSE Null

getCivilIdFromProperty(prop) ==
  CASE prop.type \in {"title", "rich_text"} -> normalizeCivilId(FirstPlainText(prop.runs))
    [] prop.type \in {"number", "phone_number"} -> normalizeCivilId(prop.v)
    [] prop.type \in {"formula_string", "formula_number"} -> normalizeCivilId(prop.v)
    [] prop.type \in {"rollup_array_title", "rollup_array_rich_text"} ->
         normalizeCivilId(FirstPlainText(prop.runs))
    [] prop.type \in {"rollup_array_number", "rollup_number"} -> normalizeCivilId(prop.v)
    [] OTHER -> Null

isStatusEmpty(p) == p \in {Undef, Null}

buildPendingStatusUpdate(sp) ==
  IF sp.kind \in {"status", "select"}
  THEN {OptionEntry(sp.name, sp.kind, PENDING_STATUS_VALUE)}
  ELSE {}

IdTypes == {"rich_text", "title", "number", "phone_number", "formula", "rollup"}

\* the three detection loops of detectLeaveSchema over leaveDb.properties
detectLeaveSchema(leaveProps) ==
  LET rel == FirstField(leaveProps,
                        LAMBDA d : d.type = "relation" /\ d.target = EMPLOYEES_DB_ID, 1)
      preferredStatus == FirstField(leaveProps,
                                    LAMBDA d : /\ d.name = PREFERRED_STATUS_PROP
                                               /\ d.type \in {"status", "select"}, 1)
      candidateStatus == FirstField(leaveProps, LAMBDA d : d.type \in {"status", "select"}, 1)
      status == IF preferredStatus # 0 THEN preferredStatus ELSE candidateStatus
      preferredId == FirstField(leaveProps, LAMBDA d : d.name = PREFERRED_EMPLOYEE_ID_PROP, 1)
      candidateId == FirstField(leaveProps, LAMBDA d : d.type \in IdTypes, 1)
      id == IF preferredId # 0 THEN preferredId ELSE candidateId
  IN [relationProp |-> IF rel # 0 THEN leaveProps[rel].name ELSE NoName,
      statusProp |-> IF status # 0
                     THEN [name |-> leaveProps[status].name, kind |-> leaveProps[status].type,
                           options |-> leaveProps[status].options]
                     ELSE NoStatusProp,
      employeeIdProp |-> IF id # 0 THEN leaveProps[id].name ELSE NoName]

\* the for loop of buildEmployeeIndex over one page of results
RECURSIVE IndexRows(_, _, _, _)
IndexRows(index, rows, employeeIdPropName, k) ==
  IF k > Len(rows) THEN index
  ELSE LET idProp == IF HasField(rows[k].props, employeeIdPropName)
                     THEN Field(rows[k].props, employeeIdPropName)
                     ELSE PropOf(rows[k].props, PREFERRED_EMPLOYEE_ID_PROP)
           civilId == getCivilIdFromProperty(idProp)
       IN IF civilId = Null THEN IndexRows(index, rows, employeeIdPropName, k + 1)
          ELSE IndexRows(MapSet(index, civilId.s, rows[k].id), rows, employeeIdPropName, k + 1)

\* the store's evaluation of the filter of fixLeaveRequests; a condition on
\* a property of another type matches nothing
IsNotEmpty(prop) ==
  CASE prop.type = "rich_text" -> JoinRuns(prop.runs, <<>>) # <<>>
    [] prop.type \in {"number", "phone_number", "formula_number"} -> prop.v # Null
    [] prop.type = "formula_string" -> ~Falsy(prop.v)
    [] prop.type = "rollup_array_rich_text" -> JoinRuns(prop.runs, <<>>) # <<>>
    [] OTHER -> FALSE

MatchesFilter(row, det) ==
  /\ \/ row.rel[det.relationProp] = <<>>
     \/ det.statusProp.kind \in {"status", "select"}
          /\ row.st[det.statusProp.name] \in {Null, Undef}
  /\ IsNotEmpty(PropOf(row.props, det.employeeIdProp))

\* positions of the records a filtered query returns from start_cursor c
FilteredPositions(table, det, c) ==
  LET hits == {k \in c..Len(table) : MatchesFilter(table[k], det)}
  IN {k \in hits : Cardinality({m \in hits : m < k}) < PageSize}

\* the properties object fixLeaveRequests builds for one row, lines 225-254
RowProperties(row, det, index) ==
  LET needLink == ~(Len(row.rel[det.relationProp]) > 0)
      needPending == IF det.statusProp # NoStatusProp
                     THEN isStatusEmpty(row.st[det.statusProp.name]) ELSE FALSE
      civilId == getCivilIdFromProperty(PropOf(row.props, det.employeeIdProp))
  IN (IF needLink /\ civilId # Null /\ civilId.s \in DOMAIN index
        THEN {RelationEntry(det.relationProp, <<index[civilId.s]>>)} ELSE {})
     \cup (IF needPending THEN buildPendingStatusUpdate(det.statusProp) ELSE {})

\* the messages fixLeaveRequests prints for one row before its update,
\* lines 236-247
RowEvents(row, det, index) ==
  LET needLink == ~(Len(row.rel[det.relationProp]) > 0)
      civilId == getCivilIdFromProperty(PropOf(row.props, det.employeeIdProp))
  IN IF ~needLink THEN <<>>
     ELSE IF civilId = Null THEN <<Event("leave_without_civil_id", row.id)>>
     ELSE IF civilId.s \notin DOMAIN index THEN <<Event("no_employee_match", civilId.s)>>
     ELSE <<>>

FixCallSites == {"retrieveLeave", "retrieveEmp", "index", "query", "update"}

\* main is started
FixStart ==
  /\ fpc = "idle"
  /\ fpc' = "retrieveLeave"
  /\ UNCHANGED <<normVars, retryVars, syncVars, detVars, mailVars, storeVars, runVars, fDetected, fIndex, fCursor, fRows, fRow, fPlan,
                 fTry, fWaits, fCalls, fExit, fDiag>>

\* withRetry, lines 36-45: the attempt in progress throws
FixAttemptFails ==
  /\ fpc \in FixCallSites
  /\ \E e \in {"rate", "other"} :
       IF fTry < Retries - 1
       THEN /\ fTry' = fTry + 1
            /\ fWaits' = IF e = "rate"
                         THEN Append(IF fTry = 0 THEN <<>> ELSE fWaits,
                                     Min(WaitStep * (fTry + 1), WaitCap))
                         ELSE IF fTry = 0 THEN <<>> ELSE fWaits
            /\ UNCHANGED <<fpc, fExit, fDiag>>
       ELSE /\ fpc' = "failed"
            /\ fExit' = 1
            /\ fDiag' = Append(fDiag, Event("error", <<>>))
            /\ UNCHANGED <<fTry, fWaits>>
  /\ fCalls' = IF fpc = "update" THEN Append(fCalls, fPlan) ELSE fCalls
  /\ UNCHANGED <<normVars, retryVars, syncVars, detVars, mailVars, storeVars, runVars, fDetected, fIndex, fCursor, fRows, fRow, fPlan>>

\* detectLeaveSchema: the leave-request schema is retrieved
FixRetrieveLeave ==
  /\ fpc = "retrieveLeave"
  /\ fpc' = "retrieveEmp"
  /\ fTry' = 0
  /\ fWaits' = IF fTry = 0 THEN <<>> ELSE fWaits
  /\ UNCHANGED <<normVars, retryVars, syncVars, detVars, mailVars, storeVars, runVars, fDetected, fIndex, fCursor, fRows, fRow, fPlan,
                 fCalls, fExit, fDiag>>

\* detectLeaveSchema: the employee schema is retrieved, the fields are
\* detected, and a missing relation or identifier field is an error
FixRetrieveEmp ==
  /\ fpc = "retrieveEmp"
  /\ LET det == detectLeaveSchema(schema)
     IN /\ fDetected' = det
        /\ IF det.relationProp = NoName \/ det.employeeIdProp = NoName
           THEN fpc' = "failed" /\ fExit' = 1 /\ fDiag' = Append(fDiag, Event("error", <<>>))
           ELSE fpc' = "index" /\ fExit' = fExit /\ fDiag' = fDiag
  /\ fTry' = 0
  /\ fWaits' = IF fTry = 0 THEN <<>> ELSE fWaits
  /\ fCursor' = 1
  /\ UNCHANGED <<normVars, retryVars, syncVars, detVars, mailVars, storeVars, runVars, fIndex, fRows, fRow, fPlan, fCalls>>

\* one iteration of the do-while loop of buildEmployeeIndex
FixIndexPage ==
  /\ fpc = "index"
  /\ fIndex' = IndexRows(fIndex, QueryPage(employees, fCursor), PREFERRED_EMPLOYEE_ID_PROP, 1)
  /\ IF HasMore(employees, fCursor)
     THEN fCursor' = fCursor + PageSize /\ fpc' = "index" /\ fDiag' = fDiag
     ELSE /\ fCursor' = 1
          /\ fpc' = "query"
          /\ fDiag' = Append(fDiag, Event("employees_indexed", <<>>))
  /\ fTry' = 0
  /\ fWaits' = IF fTry = 0 THEN <<>> ELSE fWaits
  /\ UNCHANGED <<normVars, retryVars, syncVars, detVars, mailVars, storeVars, runVars, fDetected, fRows, fRow, fPlan, fCalls, fExit>>

\* fixLeaveRequests: one filtered query of the do-while loop; fCursor = 0
\* stands for a null cursor
FixQueryPage ==
  /\ fpc = "query"
  /\ LET pos == FilteredPositions(requests, fDetected, fCursor)
         last == IF pos = {} THEN Len(requests) ELSE CHOOSE k \in pos : \A m \in pos : m <= k
         more == \E k \in (last + 1)..Len(requests) : MatchesFilter(requests[k], fDetected)
     IN /\ fRows' = [k \in 1..Cardinality(pos) |->
                       requests[CHOOSE m \in pos : Cardinality({x \in pos : x < m}) = k - 1]]
        /\ fCursor' = IF more THEN last + 1 ELSE 0
  /\ fRow' = 1
  /\ fpc' = "rows"
  /\ fTry' = 0
  /\ fWaits' = IF fTry = 0 THEN <<>> ELSE fWaits
  /\ UNCHANGED <<normVars, retryVars, syncVars, detVars, mailVars, storeVars, runVars, fDetected, fIndex, fPlan, fCalls, fExit, fDiag>>

\* one iteration of the for loop of fixLeaveRequests up to its pages.update
FixRow ==
  /\ fpc = "rows"
  /\ fRow <= Len(fRows)
  /\ fDiag' = fDiag \o RowEvents(fRows[fRow], fDetected, fIndex)
  /\ LET properties == RowProperties(fRows[fRow], fDetected, fIndex)
     IN IF properties = {}
        THEN /\ fRow' = fRow + 1
             /\ UNCHANGED <<fpc, fPlan>>
        ELSE /\ fPlan' = [page_id |-> fRows[fRow].id, properties |-> properties]
             /\ fpc' = "update"
             /\ UNCHANGED fRow
  /\ UNCHANGED <<normVars, retryVars, syncVars, detVars, mailVars, storeVars, runVars, fDetected, fIndex, fCursor, fRows, fTry, fWaits,
                 fCalls, fExit>>

\* the pages.update of the row succeeds
FixUpdate ==
  /\ fpc = "update"
  /\ StoreAccepts(schema, fPlan.properties)
  /\ fCalls' = Append(fCalls, fPlan)
  /\ requests' = PatchTable(requests, fPlan.page_id, fPlan.properties)
  /\ schema' = PatchSchema(schema, fPlan.properties)
  /\ fDiag' = Append(fDiag, Event("updated", fPlan.page_id))
  /\ fPlan' = NoPlan
  /\ fRow' = fRow + 1
  /\ fpc' = "rows"
  /\ fTry' = 0
  /\ fWaits' = IF fTry = 0 THEN <<>> ELSE fWaits
  /\ UNCHANGED <<normVars, retryVars, syncVars, detVars, mailVars, employees, runVars, fDetected, fIndex, fCursor, fRows, fExit>>

\* the end of a page of rows: the next query, or the end of main
FixPageDone ==
  /\ fpc = "rows"
  /\ fRow > Len(fRows)
  /\ IF fCursor # 0
     THEN fpc' = "query" /\ fExit' = fExit /\ fDiag' = fDiag
     ELSE fpc' = "done" /\ fExit' = 0 /\ fDiag' = Append(fDiag, Event("done", <<>>))
  /\ UNCHANGED <<normVars, retryVars, syncVars, detVars, mailVars, storeVars, runVars, fDetected, fIndex, fCursor, fRows, fRow, fPlan,
                 fTry, fWaits, fCalls>>

NextFix ==
  \/ FixStart
  \/ FixAttemptFails
  \/ FixRetrieveLeave
  \/ FixRetrieveEmp
  \/ FixIndexPage
  \/ FixQueryPage
  \/ FixRow
  \/ FixUpdate
  \/ FixPageDone

TextField(name, type) == [name |-> name, type |-> type, target |-> "", options |-> <<>>]

FixSchemas ==
  { <<TextField("raqm_alhawiya", "rich_text"), RelationField("Employee", EMPLOYEES_DB_ID),
      ChoiceField("halat_altalab", "status", PendingOptions)>>,
    <<RelationField("Employee", EMPLOYEES_DB_ID), ChoiceField("Status", "status", TodoOptions),
      ChoiceField("Type", "select", <<>>), TextField("raqm_alhawiya", "rich_text")>>,
    <<TextField("raqm_alhawiya", "rich_text"), RelationField("Employee", EMPLOYEES_DB_ID),
      ChoiceField("Status", "status", <<>>)>>,
    <<ChoiceField("Status", "status", <<>>), RelationField("Employee", EMPLOYEES_DB_ID),
      ChoiceField("halat_altalab", "select", VariantOptions),
      TextField("raqm_alhawiya", "rich_text")>>,
    <<TextField("raqm_alhawiya", "rich_text"), RelationField("Employee", EMPLOYEES_DB_ID)>>,
    <<TextField("raqm_alhawiya", "rich_text"), RelationField("Project", OTHER_DB_ID),
      ChoiceField("Status", "status", TodoOptions)>>,
    <<RelationField("Employee", EMPLOYEES_DB_ID),
      ChoiceField("Status", "status", TodoOptions)>> }

FixBags ==
  {<<[name |-> "raqm_alhawiya", prop |-> RichTextProp(runs)]>> :
     runs \in {<<>>, <<<<"1", "2">>>>, <<<<"a1", "-", "a2">>>>, <<<<"p1", "p2">>>>,
               <<<<"1">>, <<"2">>>>}}
  \cup {<<[name |-> "raqm_alhawiya", prop |-> NumberProp(Num(12))]>>}

FixEmployeeBags ==
  {<<[name |-> "raqm_alhawiya", prop |-> RichTextProp(<<<<"1", "2">>>>)]>>,
   <<[name |-> "raqm_alhawiya", prop |-> RichTextProp(<<<<"a1", "-", "a2">>>>)]>>,
   <<[name |-> "raqm_alhawiya", prop |-> RichTextProp(<<<<"1">>, <<"2">>>>)]>>,
   <<[name |-> "raqm_alhawiya", prop |-> RichTextProp(<<<<"1">>>>)]>>,
   <<[name |-> "raqm_alhawiya", prop |-> NumberProp(Num(34))]>>}

\* the values the fields of a request start with in this variant
FixRequestRecords(props) ==
  {r \in RequestRecords(props, {PlainBag} \cup FixBags) :
     /\ \A n \in DOMAIN r.rel : r.rel[n] \in {<<>>, <<"e1">>}
     /\ \A n \in DOMAIN r.st : r.st[n] # Undef
     /\ r.props = PlainBag \/ (\A n \in DOMAIN r.rel : r.rel[n] = <<>>)}

InitFix ==
  /\ schema \in FixSchemas
  /\ employees \in EmployeeTables(FixEmployeeBags, FixEmployeeBags, MaxEmp)
  /\ requests \in RequestTables(FixRequestRecords(schema), {PlainBag} \cup FixBags, MaxPlanReq)
  /\ IdleNorm
  /\ IdleRun
  /\ IdleFix
  /\ IdleRetry
  /\ IdleSync
  /\ IdleDet
  /\ IdleMail

SpecFix == InitFix /\ [][NextFix]_vars

\* ------------------------------------------------------------------
\* The retry wrappers applied to a call whose attempts fail or succeed:
\* withRetry (src/unnamed/part_001 and, with the same body, part_006) and
\* NotionSync.apiCallWithRetry (src/unnamed/part_003)
\* ------------------------------------------------------------------
\* maxRetries = 5
DefaultMaxRetries == 5

\* Math.pow(2, attempt)
RECURSIVE Pow2(_)
Pow2(k) == IF k = 0 THEN 1 ELSE 2 * Pow2(k - 1)

\* the wait of withRetry before the next attempt, constant
withRetryWaitFlat(i) == WaitStep

\* Math.min(2000 * (i + 1), 8000)
withRetryWait(i) == Min(WaitStep * (i + 1), WaitCap)

\* the catch block of withRetry in iteration i: whether the loop goes on
\* and the wait before it does, -1 for none
withRetryCatch(i, retries, kind) ==
  [again |-> i < retries - 1,
   wait |-> IF kind = "rate" /\ i < retries - 1 THEN withRetryWait(i) ELSE -1]

\* the catch block of apiCallWithRetry in iteration attempt
apiCallWithRetryCatch(attempt, maxRetries, kind) ==
  [again |-> kind = "rate" /\ attempt < maxRetries - 1,
   wait |-> IF kind = "rate" /\ attempt < maxRetries - 1 THEN Pow2(attempt) * 1000 ELSE -1]

Wrappers == {"withRetry", "withRetryLink", "apiCallWithRetry"}

\* the attempt ceiling in force: the default parameter value when none is passed
Ceiling(fn, arg) ==
  IF arg # -1 THEN arg ELSE IF fn = "apiCallWithRetry" THEN DefaultMaxRetries ELSE Retries

Catch(fn, i, n, kind) ==
  IF fn = "apiCallWithRetry" THEN apiCallWithRetryCatch(i, n, kind) ELSE withRetryCatch(i, n, kind)

InitRetry ==
  /\ wFn \in Wrappers
  /\ wArg \in {-1} \cup 1..MaxCeiling
  /\ wErrs = <<>>
  /\ wInvocations = 0
  /\ wWaits = <<>>
  /\ wResult = [state |-> "running", attempt |-> 0, error |-> "none"]
  /\ IdleNorm
  /\ IdleRun
  /\ IdleFix
  /\ IdleSync
  /\ IdleDet
  /\ IdleMail
  /\ schema = <<>> /\ employees = <<>> /\ requests = <<>>

\* try { return await fn(); }: the attempt succeeds
AttemptReturns ==
  /\ wResult.state = "running"
  /\ wInvocations' = wInvocations + 1
  /\ wResult' = [state |-> "returned", attempt |-> wInvocations + 1, error |-> "none"]
  /\ UNCHANGED <<wFn, wArg, wErrs, wWaits, normVars, storeVars, runVars, fixVars, syncVars, detVars, mailVars>>

\* the attempt throws: the catch block waits and loops, or the error leaves
\* the wrapper
AttemptThrows ==
  /\ wResult.state = "running"
  /\ \E kind \in {"rate", "other"} :
       LET c == Catch(wFn, wInvocations, Ceiling(wFn, wArg), kind)
       IN /\ wErrs' = Append(wErrs, kind)
          /\ wInvocations' = wInvocations + 1
          /\ wWaits' = IF c.wait # -1 THEN Append(wWaits, c.wait) ELSE wWaits
          /\ wResult' = IF c.again THEN wResult
                        ELSE [state |-> "raised", attempt |-> wInvocations + 1, error |-> kind]
  /\ UNCHANGED <<wFn, wArg, normVars, storeVars, runVars, fixVars, syncVars, detVars, mailVars>>

NextRetry == AttemptReturns \/ AttemptThrows

SpecRetry == InitRetry /\ [][NextRetry]_vars

\* ------------------------------------------------------------------
\* NotionSync (src/unnamed/part_003): buildEmployeeIndex,
\* syncLeaveRequests, run and main
\* ------------------------------------------------------------------
\* ['رقم الهوية', 'ID Number', 'رقم']
idPropertyNames == <<"raqm_alhawiya", "ID Number", "raqm">>

\* ['اسم الموظف', 'Employee Name', 'الموظف']
relationPropertyNames == <<"ism_almuwazzaf", "Employee Name", "almuwazzaf">>

\* ['حالة الطلب', 'Status', 'الحالة']
statusPropertyNames == <<"halat_altalab", "Status", "alhala">>

\* extractPropertyValue(properties, propName, 'number' | 'rich_text')
extractPropertyValue(prop, propertyType) ==
  CASE propertyType = "number" -> prop.v
    [] propertyType = "rich_text" -> IF Len(prop.runs) > 0 THEN Str(prop.runs[1]) ELSE Str(<<>>)
    [] OTHER -> Null

\* the loop over idPropertyNames, lines 182-196 and 252-266: the variable
\* keeps its last assignment when no name yields a truthy value
RECURSIVE IdScan(_, _, _)
IdScan(properties, k, idNumber) ==
  IF k > Len(idPropertyNames) THEN idNumber
  ELSE IF ~HasField(properties, idPropertyNames[k]) THEN IdScan(properties, k + 1, idNumber)
  ELSE LET prop == Field(properties, idPropertyNames[k])
           next == IF prop.type \in {"number", "rich_text"}
                   THEN extractPropertyValue(prop, prop.type) ELSE idNumber
       IN IF ~Falsy(next) THEN next ELSE IdScan(properties, k + 1, next)

\* the for loop of buildEmployeeIndex over response.results
RECURSIVE SyncIndexRows(_, _, _)
SyncIndexRows(map, rows, k) ==
  IF k > Len(rows) THEN map
  ELSE LET normalizedId == normalizeIdNumber(IdScan(rows[k].props, 1, Null))
       IN IF Falsy(normalizedId) THEN SyncIndexRows(map, rows, k + 1)
          ELSE SyncIndexRows(MapSet(map, normalizedId.s, rows[k].id), rows, k + 1)

\* properties[propName] of a leave-request page is defined
PageHas(row, name) ==
  \/ name \in DOMAIN row.rel
  \/ name \in DOMAIN row.st /\ row.st[name] # Undef
  \/ HasField(row.props, name)

\* the first of the names the page has, 0 for none
FirstName(row, names) ==
  LET hits == {k \in DOMAIN names : PageHas(row, names[k])}
  IN IF hits = {} THEN 0 ELSE CHOOSE k \in hits : \A m \in hits : k <= m

\* the updates object syncLeaveRequests builds for one page, lines 277-337
SyncUpdates(row, props, map) ==
  LET normalizedRequestId == normalizeIdNumber(IdScan(row.props, 1, Null))
      r == FirstName(row, relationPropertyNames)
      relName == IF r = 0 THEN NoName ELSE relationPropertyNames[r]
      employeeRelation == IF r # 0 /\ relName \in DOMAIN row.rel
                          THEN row.rel[relName] ELSE <<>>
      st == FirstName(row, statusPropertyNames)
      statusPropName == IF st = 0 THEN NoName ELSE statusPropertyNames[st]
      propType == IF st # 0 /\ statusPropName \in DOMAIN row.st
                  THEN FieldDef(props, statusPropName).type ELSE "other"
      statusValue == IF propType \in {"select", "status"} THEN row.st[statusPropName] ELSE Null
  IN (IF /\ normalizedRequestId.s \in DOMAIN map
         /\ map[normalizedRequestId.s] \notin Range(employeeRelation)
        THEN {RelationEntry(relName, <<map[normalizedRequestId.s]>>)} ELSE {})
     \cup (IF st # 0 /\ Falsy(statusValue) /\ propType \in {"select", "status"}
             THEN {OptionEntry(statusPropName, propType, desired)} ELSE {})

SyncCallSites == {"index", "query", "update"}

\* the error of the pages.update leaves the loop and reaches run
UpdateFailedFatal(log, pageId) ==
  /\ sPc' = "failed"
  /\ sFatal' = "syncLeaveRequests"
  /\ sExit' = 1
  /\ sDiag' = Append(log, Event("fatal_error", <<>>))
  /\ UNCHANGED <<errorCount, sRow, sPlan>>

\* the catch block of lines 363-366: the error is logged and counted, the
\* for loop goes on with the next page
UpdateFailed(log, pageId) ==
  /\ errorCount' = errorCount + 1
  /\ sDiag' = Append(log, Event("error_updating", pageId))
  /\ sRow' = sRow + 1
  /\ sPlan' = NoPlan
  /\ sPc' = "rows"
  /\ UNCHANGED <<sFatal, sExit>>

\* main is started: run calls buildEmployeeIndex
SyncStart ==
  /\ sPc = "idle"
  /\ sPc' = "index"
  /\ UNCHANGED <<normVars, storeVars, runVars, fixVars, retryVars, detVars, mailVars, idToPageMap, startCursor,
                 sRows, sRow, sPlan, sAttempt, sUpdatedCount, sSkippedCount, errorCount,
                 sCalls, sFatal, sExit, sDiag>>

\* apiCallWithRetry, lines 81-98: the attempt in progress throws; a
\* rate-limit error below the ceiling is retried, any other error leaves
\* the wrapper
SyncAttemptFails ==
  /\ sPc \in SyncCallSites
  /\ sCalls' = IF sPc = "update" THEN Append(sCalls, sPlan) ELSE sCalls
  /\ \E kind \in {"rate", "other"} :
       LET c == apiCallWithRetryCatch(sAttempt, DefaultMaxRetries, kind)
           log == IF kind = "rate" THEN Append(sDiag, Event("rate_limit_exceeded", <<>>))
                  ELSE sDiag
       IN IF c.again
          THEN /\ sAttempt' = sAttempt + 1
               /\ UNCHANGED <<sPc, sFatal, sExit, sDiag, errorCount, sRow, sPlan>>
          ELSE /\ sAttempt' = 0
               /\ IF sPc = "update"
                  THEN UpdateFailed(log, sPlan.page_id)
                  ELSE /\ sPc' = "failed"
                       /\ sFatal' = IF sPc = "index" THEN "buildEmployeeIndex"
                                    ELSE "syncLeaveRequests"
                       /\ sExit' = 1
                       /\ sDiag' = Append(log, Event("fatal_error", <<>>))
                       /\ UNCHANGED <<errorCount, sRow, sPlan>>
  /\ UNCHANGED <<normVars, storeVars, runVars, fixVars, retryVars, detVars, mailVars, idToPageMap, startCursor,
                 sRows, sUpdatedCount, sSkippedCount>>

\* one iteration of the while loop of buildEmployeeIndex
SyncIndexPage ==
  /\ sPc = "index"
  /\ idToPageMap' = SyncIndexRows(idToPageMap, QueryPage(employees, startCursor), 1)
  /\ IF HasMore(employees, startCursor)
     THEN startCursor' = startCursor + PageSize /\ sPc' = "index"
     ELSE startCursor' = 1 /\ sPc' = "query"
  /\ sAttempt' = 0
  /\ UNCHANGED <<normVars, storeVars, runVars, fixVars, retryVars, detVars, mailVars, sRows, sRow, sPlan,
                 sUpdatedCount, sSkippedCount, errorCount, sCalls, sFatal, sExit, sDiag>>

\* the query of one iteration of the while loop of syncLeaveRequests
SyncQueryPage ==
  /\ sPc = "query"
  /\ sRows' = QueryPage(requests, startCursor)
  /\ sRow' = 1
  /\ sPc' = "rows"
  /\ sAttempt' = 0
  /\ UNCHANGED <<normVars, storeVars, runVars, fixVars, retryVars, detVars, mailVars, idToPageMap, startCursor,
                 sPlan, sUpdatedCount, sSkippedCount, errorCount, sCalls, sFatal, sExit,
                 sDiag>>

\* one iteration of the for loop of syncLeaveRequests up to its pages.update
SyncRow ==
  /\ sPc = "rows"
  /\ sRow <= Len(sRows)
  /\ LET page == sRows[sRow]
         updates == SyncUpdates(page, schema, idToPageMap)
     IN IF Falsy(normalizeIdNumber(IdScan(page.props, 1, Null)))
        THEN /\ sSkippedCount' = sSkippedCount + 1
             /\ sDiag' = Append(sDiag, Event("skipping_no_id", page.id))
             /\ sRow' = sRow + 1
             /\ UNCHANGED <<sPc, sPlan>>
        ELSE IF updates = {}
        THEN /\ sSkippedCount' = sSkippedCount + 1
             /\ sRow' = sRow + 1
             /\ UNCHANGED <<sPc, sPlan, sDiag>>
        ELSE /\ sPlan' = [page_id |-> page.id, properties |-> updates]
             /\ sPc' = "update"
             /\ UNCHANGED <<sRow, sSkippedCount, sDiag>>
  /\ UNCHANGED <<normVars, storeVars, runVars, fixVars, retryVars, detVars, mailVars, idToPageMap, startCursor,
                 sRows, sAttempt, sUpdatedCount, errorCount, sCalls, sFatal, sExit>>

\* the pages.update of the page succeeds, lines 342-361
SyncUpdate ==
  /\ sPc = "update"
  /\ StoreAccepts(schema, sPlan.properties)
  /\ sCalls' = Append(sCalls, sPlan)
  /\ requests' = PatchTable(requests, sPlan.page_id, sPlan.properties)
  /\ schema' = PatchSchema(schema, sPlan.properties)
  /\ sDiag' = Append(sDiag, Event("updated", sPlan.page_id))
  /\ sUpdatedCount' = sUpdatedCount + 1
  /\ sPlan' = NoPlan
  /\ sRow' = sRow + 1
  /\ sPc' = "rows"
  /\ sAttempt' = 0
  /\ UNCHANGED <<normVars, employees, runVars, fixVars, retryVars, detVars, mailVars, idToPageMap, startCursor,
                 sRows, sSkippedCount, errorCount, sFatal, sExit>>

\* the end of response.results: the next query, or the summary, the end of
\* run and process.exit(0)
SyncPageDone ==
  /\ sPc = "rows"
  /\ sRow > Len(sRows)
  /\ IF HasMore(requests, startCursor)
     THEN /\ startCursor' = startCursor + PageSize
          /\ sPc' = "query"
          /\ UNCHANGED <<sExit, sDiag>>
     ELSE /\ sPc' = "done"
          /\ sExit' = 0
          /\ sDiag' = Append(sDiag, Event("completed", <<>>))
          /\ UNCHANGED startCursor
  /\ UNCHANGED <<normVars, storeVars, runVars, fixVars, retryVars, detVars, mailVars, idToPageMap, sRows, sRow,
                 sPlan, sAttempt, sUpdatedCount, sSkippedCount, errorCount, sCalls, sFatal>>

NextSync ==
  \/ SyncStart
  \/ SyncAttemptFails
  \/ SyncIndexPage
  \/ SyncQueryPage
  \/ SyncRow
  \/ SyncUpdate
  \/ SyncPageDone

SyncSchemas ==
  { <<RelationField("ism_almuwazzaf", EMPLOYEES_DB_ID),
      ChoiceField("halat_altalab", "status", PendingOptions)>>,
    <<RelationField("Employee Name", EMPLOYEES_DB_ID), ChoiceField("Status", "select", <<>>)>>,
    <<RelationField("Employee", EMPLOYEES_DB_ID),
      ChoiceField("alhala", "status", TodoOptions)>>,
    <<RelationField("almuwazzaf", EMPLOYEES_DB_ID)>> }

SyncPlainBag == <<[name |-> "raqm_alhawiya", prop |-> RichTextProp(<<<<"1", "2">>>>)]>>

SyncBags ==
  { SyncPlainBag,
    <<[name |-> "ID Number", prop |-> NumberProp(Num(34))]>>,
    <<[name |-> "raqm", prop |-> RichTextProp(<<<<"d1", "a2">>>>)]>>,
    <<[name |-> "raqm_alhawiya", prop |-> TitleProp(<<<<"1", "2">>>>)]>> }

SyncEmployees ==
  { <<>>,
    <<[id |-> "e1", props |-> <<[name |-> "raqm_alhawiya",
                                 prop |-> RichTextProp(<<<<"a1", "a2">>>>)]>>]>>,
    <<[id |-> "e1", props |-> <<[name |-> "ID Number", prop |-> NumberProp(Num(12))]>>],
      [id |-> "e2", props |-> <<[name |-> "raqm", prop |-> RichTextProp(<<<<"3", "4">>>>)]>>]>> }

\* the values the fields of a request start with
SyncRequestRecords(props, bags) ==
  {r \in RequestRecords(props, bags) :
     /\ \A n \in DOMAIN r.rel : r.rel[n] \in {<<>>, <<"e2">>}
     /\ \A n \in DOMAIN r.st : r.st[n] # Undef}

\* every schema and request shape, few requests
InitSyncPlans ==
  /\ schema \in SyncSchemas
  /\ employees \in SyncEmployees
  /\ requests \in RequestTables(SyncRequestRecords(schema, SyncBags), {SyncPlainBag},
                                MaxPlanReq)

\* several requests that all need an update
InitSyncMany ==
  /\ schema \in SyncSchemas
  /\ employees \in SyncEmployees
  /\ requests \in {t \in RequestTables(SyncRequestRecords(schema, {SyncPlainBag}),
                                       {SyncPlainBag}, MaxReq) :
                     \A k \in DOMAIN t : /\ \A n \in DOMAIN t[k].rel : t[k].rel[n] = <<>>
                                         /\ \A n \in DOMAIN t[k].st : t[k].st[n] = Null}

InitSync ==
  /\ InitSyncPlans \/ InitSyncMany
  /\ IdleNorm
  /\ IdleRun
  /\ IdleFix
  /\ IdleRetry
  /\ IdleSync
  /\ IdleDet
  /\ IdleMail

SpecSync == InitSync /\ [][NextSync]_vars

\* ------------------------------------------------------------------
\* The detection functions applied to a schema or an option list:
\* findEmployeeRelationPropName, findStatusProp, pickPendingName
\* (src/sync.js) and detectLeaveSchema (the auto-detecting variant)
\* ------------------------------------------------------------------
FieldPool ==
  { RelationField("Employee", EMPLOYEES_DB_ID), RelationField("Project", OTHER_DB_ID),
    RelationField("Manager", EMPLOYEES_DB_ID),
    ChoiceField("Status", "status", TodoOptions),
    ChoiceField("halat_altalab", "select", VariantOptions),
    ChoiceField("Type", "select", <<>>),
    TextField("halat_altalab", "rich_text"),
    TextField("raqm_alhawiya", "rich_text") }

\* the entries of Object.entries(properties): no two fields share a name
SchemaInputs ==
  {p \in StringsOver(FieldPool, MaxFields) :
     \A i, j \in DOMAIN p : p[i].name = p[j].name => i = j}

OptionPool ==
  { Option(desired, "to_do"), Option(<<"QYD", "alantzar">>, "none"),
    Option(approve, "complete"), Option(<<"Not", " ", "started">>, "to_do"),
    Option(<<"Done">>, "complete"), Option(reject, "complete") }

OptionInputs == StringsOver(OptionPool, MaxFields)

InitDetect ==
  /\ hIn \in {[props |-> p, kind |-> "none", options |-> <<>>] : p \in SchemaInputs}
             \cup {[props |-> <<>>, kind |-> k, options |-> o] :
                     k \in {"status", "select"}, o \in OptionInputs}
  /\ hFn = "none"
  /\ hOut = <<>>
  /\ schema = <<>> /\ employees = <<>> /\ requests = <<>>
  /\ IdleNorm
  /\ IdleRun
  /\ IdleFix
  /\ IdleRetry
  /\ IdleSync
  /\ IdleMail

\* a call of fn on the input; the functions keep no state between calls
CallDetection(fn, result) ==
  /\ hFn \in {"none", fn}
  /\ Len(hOut) < 2
  /\ hFn' = fn
  /\ hOut' = Append(hOut, result)
  /\ UNCHANGED <<hIn, normVars, storeVars, runVars, fixVars, retryVars, syncVars, mailVars>>

CallFindEmployeeRelationPropName ==
  /\ hIn.kind = "none"
  /\ CallDetection("findEmployeeRelationPropName", findEmployeeRelationPropName(hIn.props))

CallFindStatusProp ==
  /\ hIn.kind = "none"
  /\ CallDetection("findStatusProp", findStatusProp(hIn.props))

CallDetectLeaveSchema ==
  /\ hIn.kind = "none"
  /\ CallDetection("detectLeaveSchema", detectLeaveSchema(hIn.props))

CallPickPendingName ==
  /\ hIn.kind # "none"
  /\ CallDetection("pickPendingName", pickPendingName(hIn.kind, hIn.options))

NextDetect ==
  \/ CallFindEmployeeRelationPropName
  \/ CallFindStatusProp
  \/ CallDetectLeaveSchema
  \/ CallPickPendingName

SpecDetect == InitDetect /\ [][NextDetect]_vars

\* ------------------------------------------------------------------
\* The status e-mail script: src/send-status-emails.js and its copy
\* src/unnamed/part_000 (getEmailFlag, setEmailFlag, fetchAllRequests, run)
\* ------------------------------------------------------------------
MailScripts == {"send-status-emails.js", "part_000"}

\* 'تم الإرسال'
defaultFlag == <<"tm", " ", "alirsal">>

\* getEmailFlag: the first text run in the script, the runs joined by a
\* space and trimmed in the copy
getEmailFlag(script, runs) ==
  IF script = "part_000" THEN Trim(JoinRuns(runs, <<" ">>))
  ELSE IF Len(runs) > 0 THEN runs[1] ELSE <<>>

\* the content setEmailFlag writes: text in the script, text || default in
\* the copy
FlagContent(script, text) ==
  IF script = "part_000" /\ text = <<>> THEN defaultFlag ELSE text

\* the guards of run without the comparison of the flag
ShouldSkipNoFlag(status, email, flag) == status = <<>> \/ email = ""

\* the guards of run before sendEmail: no status, no address, or a flag
\* that equals the status
ShouldSkip(status, email, flag) ==
  \/ status = <<>>
  \/ email = ""
  \/ flag # <<>> /\ Trim(flag) = Trim(status)

\* what a successful setEmailFlag leaves in the record: one text run
SetFlag(table, pageId, content) ==
  [k \in DOMAIN table |->
     IF table[k].id = pageId THEN [table[k] EXCEPT !.flag = <<content>>] ELSE table[k]]

\* run is started (a first run, or a run after the end of the previous one)
MailStart ==
  /\ mPc \in {"idle", "done", "failed"}
  /\ mRun < MaxRuns
  /\ mPc' = "fetch"
  /\ mRun' = mRun + 1
  /\ mCursor' = 1
  /\ mRows' = <<>>
  /\ mRow' = 1
  /\ sent' = 0
  /\ skipped' = 0
  /\ mExit' = -1
  /\ UNCHANGED <<normVars, storeVars, runVars, fixVars, retryVars, syncVars, detVars, mScript,
                 mTable, mDelivered, mFlagWrites, mFaults>>

\* one iteration of the do-while loop of fetchAllRequests
MailFetchPage ==
  /\ mPc = "fetch"
  /\ mRows' = mRows \o QueryPage(mTable, mCursor)
  /\ IF HasMore(mTable, mCursor)
     THEN mCursor' = mCursor + PageSize /\ mPc' = "fetch"
     ELSE mCursor' = 1 /\ mPc' = "loop"
  /\ UNCHANGED <<normVars, storeVars, runVars, fixVars, retryVars, syncVars, detVars, mScript,
                 mTable, mRun, mRow, sent, skipped, mDelivered, mFlagWrites, mFaults, mExit>>

\* databases.query throws: the error leaves run, process.exit(1)
MailFetchFails ==
  /\ mPc = "fetch"
  /\ mFaults < MaxFaults
  /\ mFaults' = mFaults + 1
  /\ mPc' = "failed"
  /\ mExit' = 1
  /\ UNCHANGED <<normVars, storeVars, runVars, fixVars, retryVars, syncVars, detVars, mScript,
                 mTable, mRun, mCursor, mRows, mRow, sent, skipped, mDelivered, mFlagWrites>>

\* one iteration of the for loop of run up to the result of sendEmail
MailRow ==
  /\ mPc = "loop"
  /\ mRow <= Len(mRows)
  /\ LET page == mRows[mRow]
         status == page.status
         email == page.email
         flag == getEmailFlag(mScript, page.flag)
     IN IF ShouldSkip(status, email, flag)
        THEN /\ skipped' = skipped + 1
             /\ mRow' = mRow + 1
             /\ UNCHANGED <<mPc, mDelivered, mFaults>>
        ELSE \/ /\ mDelivered' = Append(mDelivered, [page_id |-> page.id, status |-> status,
                                                      to |-> email, run |-> mRun])
                /\ mPc' = "flag"
                /\ UNCHANGED <<mRow, skipped, mFaults>>
             \/ /\ mFaults < MaxFaults
                /\ mFaults' = mFaults + 1
                /\ skipped' = skipped + 1
                /\ mRow' = mRow + 1
                /\ UNCHANGED <<mPc, mDelivered>>
  /\ UNCHANGED <<normVars, storeVars, runVars, fixVars, retryVars, syncVars, detVars, mScript,
                 mTable, mRun, mCursor, mRows, sent, mFlagWrites, mExit>>

\* await setEmailFlag(page.id, status) succeeds; sent++
MailSetFlag ==
  /\ mPc = "flag"
  /\ LET page == mRows[mRow]
         content == FlagContent(mScript, page.status)
     IN /\ mTable' = SetFlag(mTable, page.id, content)
        /\ mFlagWrites' = Append(mFlagWrites, [page_id |-> page.id, text |-> content,
                                               run |-> mRun])
  /\ sent' = sent + 1
  /\ mRow' = mRow + 1
  /\ mPc' = "loop"
  /\ UNCHANGED <<normVars, storeVars, runVars, fixVars, retryVars, syncVars, detVars, mScript,
                 mRun, mCursor, mRows, skipped, mDelivered, mFaults, mExit>>

\* pages.update of setEmailFlag throws: the error leaves run, process.exit(1)
MailSetFlagFails ==
  /\ mPc = "flag"
  /\ mFaults < MaxFaults
  /\ mFaults' = mFaults + 1
  /\ mPc' = "failed"
  /\ mExit' = 1
  /\ UNCHANGED <<normVars, storeVars, runVars, fixVars, retryVars, syncVars, detVars, mScript,
                 mTable, mRun, mCursor, mRows, mRow, sent, skipped, mDelivered, mFlagWrites>>

\* the end of the for loop: the summary, process.exit(0)
MailDone ==
  /\ mPc = "loop"
  /\ mRow > Len(mRows)
  /\ mPc' = "done"
  /\ mExit' = 0
  /\ UNCHANGED <<normVars, storeVars, runVars, fixVars, retryVars, syncVars, detVars, mScript,
                 mTable, mRun, mCursor, mRows, mRow, sent, skipped, mDelivered, mFlagWrites,
                 mFaults>>

NextMail ==
  \/ MailStart
  \/ MailFetchPage
  \/ MailFetchFails
  \/ MailRow
  \/ MailSetFlag
  \/ MailSetFlagFails
  \/ MailDone

\* the pages of the table: status 'حالة الطلب', address 'الايميل' and
\* the text runs of 'هل تم ارسال ايميل؟'
MailRecords ==
  {[status |-> st, email |-> em, flag |-> fl] :
     st \in {<<>>, desired, approve},
     em \in {"", "a@x"},
     fl \in {<<>>, <<desired>>, <<approve \o <<" ">> >>}}

MailTables ==
  UNION {{[k \in 1..m |-> [id |-> RequestId(k), status |-> f[k].status, email |-> f[k].email,
                           flag |-> f[k].flag]] : f \in [1..m -> MailRecords]} :
           m \in 0..MaxPlanReq}

InitMail ==
  /\ mScript \in MailScripts
  /\ mTable \in MailTables
  /\ mPc = "idle"
  /\ mRun = 0
  /\ mCursor = 1
  /\ mRows = <<>>
  /\ mRow = 1
  /\ sent = 0
  /\ skipped = 0
  /\ mDelivered = <<>>
  /\ mFlagWrites = <<>>
  /\ mFaults = 0
  /\ mExit = -1
  /\ schema = <<>> /\ employees = <<>> /\ requests = <<>>
  /\ IdleNorm
  /\ IdleRun
  /\ IdleFix
  /\ IdleRetry
  /\ IdleSync
  /\ IdleDet

SpecMail == InitMail /\ [][NextMail]_vars

\* ------------------------------------------------------------------
\* Properties
\* ------------------------------------------------------------------
\* the page of the current run that a pages.update call was made for
PageRead(pageId) ==
  leaveRequests[CHOOSE k \in DOMAIN leaveRequests : leaveRequests[k].id = pageId]

KeyOf(record) == normalizeNumber(extractIdNumber(record.props)).s

RelationEntries(call) == {e \in call.properties : e.kind = "relation"}

OptionEntries(call) == {e \in call.properties : e.kind # "relation"}

\* C1: every relation value written to a leave request is the one-element
\* list holding the Employee Index entry of that request's own normalized
\* identifier, so two requests with the same key get the same target.
C1_RelationIsIndexEntry ==
  /\ \A k \in DOMAIN calls : \A e \in RelationEntries(calls[k]) :
       LET r == PageRead(calls[k].page_id)
       IN /\ ~Falsy(extractIdNumber(r.props))
          /\ KeyOf(r) \in DOMAIN employeesMap
          /\ e.relation = <<employeesMap[KeyOf(r)]>>
  /\ \A k1, k2 \in DOMAIN calls :
       \A e1 \in RelationEntries(calls[k1]), e2 \in RelationEntries(calls[k2]) :
         KeyOf(PageRead(calls[k1].page_id)) = KeyOf(PageRead(calls[k2].page_id))
           => e1.relation = e2.relation

C1_Witness ==
  /\ Len(calls) = 2
  /\ calls[1].ok /\ calls[2].ok
  /\ calls[1].page_id # calls[2].page_id
  /\ RelationEntries(calls[1]) # {}
  /\ RelationEntries(calls[2]) # {}
  /\ KeyOf(PageRead(calls[1].page_id)) = KeyOf(PageRead(calls[2].page_id))
  /\ Cardinality(DOMAIN employeesMap) = 2

\* C2: after a run that completed with every update call succeeding, the
\* next run issues no pages.update call.
C2_SecondRunIssuesNoUpdate == (run >= 2 /\ prevOk) => calls = <<>>

C2_Witness ==
  /\ run = 2
  /\ prevOk
  /\ pc = "done"
  /\ Len(prevCalls) = 2
  /\ skippedCount = 2

\* C3: a processed request whose relation already contains the matching
\* employee, at any position, and whose status is set gets no update call.
C3_NoUpdateWhenLinkedAnywhere ==
  pc \in {"loop", "done"} =>
    \A k \in 1..(idx - 1) :
      LET r == leaveRequests[k]
      IN (/\ ~Falsy(extractIdNumber(r.props))
          /\ KeyOf(r) \in DOMAIN employeesMap
          /\ relationPropName # NoName
          /\ employeesMap[KeyOf(r)] \in Range(r.rel[relationPropName])
          /\ statusProp # NoStatusProp
          /\ r.st[statusProp.name].t = "str")
         => \A c \in DOMAIN calls : calls[c].page_id # r.id

\* C4: a status value is sent only when a status field was detected and the
\* request's current status is unset, and a status that was set before the
\* run is the same after it.
C4_StatusNeverOverwritten ==
  /\ \A k \in DOMAIN calls : \A e \in OptionEntries(calls[k]) :
       /\ statusProp # NoStatusProp
       /\ e.field = statusProp.name
       /\ PageRead(calls[k].page_id).st[e.field] \in {Null, Undef}
  /\ \A k \in DOMAIN requests0 : \A f \in DOMAIN requests0[k].st :
       requests0[k].st[f].t = "str" => requests[k].st[f] = requests0[k].st[f]

C4_Witness ==
  /\ pc = "done"
  /\ Len(calls) = 1
  /\ calls[1].ok
  /\ statusProp # NoStatusProp
  /\ requests0[1].st[statusProp.name].t = "str"
  /\ requests[1] # requests0[1]

\* the value of a digit written in the Eastern-Arabic or the Western script
DigitValue(c) ==
  IF \E d \in 1..10 : arabicNumbers[d] = c
  THEN (CHOOSE d \in 1..10 : arabicNumbers[d] = c) - 1
  ELSE IF \E d \in 1..10 : englishNumbers[d] = c
  THEN (CHOOSE d \in 1..10 : englishNumbers[d] = c) - 1
  ELSE -1

\* a and b write the same digit sequence in different scripts
SameDigitsOtherScript(a, b) ==
  /\ a.t = "str" /\ b.t = "str"
  /\ a.s # <<>>
  /\ a.s # b.s
  /\ Len(a.s) = Len(b.s)
  /\ \A k \in DOMAIN a.s : DigitValue(a.s[k]) >= 0 /\ DigitValue(a.s[k]) = DigitValue(b.s[k])

\* the canonical key of section 4.1: digits of every script to Western
\* digits, everything else removed
CanonicalKey(v) ==
  IF v.t # "str" THEN <<>>
  ELSE StripNonDigits(ReplaceLoop(ReplaceLoop(ReplaceLoop(v.s, arabicNumbers, englishNumbers, 1),
                                              hindiNumbers, englishNumbers, 1),
                                  hindiNumerals, englishNumbers, 1))

\* employee i and request j of a finished run: identifiers equal up to the
\* script, a detected relation field that was empty, a successful update
CrossScriptCase(i, j) ==
  /\ pc = "done"
  /\ relationPropName # NoName
  /\ SameDigitsOtherScript(extractIdNumber(employees[i].props),
                           extractIdNumber(requests0[j].props))
  /\ requests0[j].rel[relationPropName] = <<>>
  /\ \E c \in DOMAIN calls : calls[c].page_id = requests0[j].id /\ calls[c].ok

\* C5: an option name written to a field of kind status is one of the
\* options of that field as read from the schema.
C5_ClosedSetSafety ==
  /\ \A k \in DOMAIN calls : \A e \in OptionEntries(calls[k]) :
       e.kind = "status" => \E o \in Range(statusProp.options) : o.name = e.name
  /\ \A k \in DOMAIN fCalls : \A e \in OptionEntries(fCalls[k]) :
       e.kind = "status" => \E o \in Range(fDetected.statusProp.options) : o.name = e.name

C7_KeysAreDigitStrings ==
  \A key \in DOMAIN employeesMap \cup lookups :
    key # <<>> /\ \A k \in DOMAIN key : IsDigit(key[k])

\* C8: every normalizer maps the Eastern-Arabic, the extended Arabic-Indic
\* and the Western writing of 0123 to the key "0123".
C8_ScriptEquivalence ==
  (Len(nOut) >= 1 /\ nIn \in {Str(EasternSample), Str(PersianSample), Str(WesternSample)})
    => nOut[1] = Str(WesternSample)

AbsentOf(fn) == IF fn = "normalizeNumber" THEN Str(<<>>) ELSE Null

AnyScriptDigit(c) ==
  c \in Range(englishNumbers) \cup Range(arabicNumbers) \cup Range(hindiNumbers)
        \cup Range(hindiNumerals)

\* C9: every normalizer returns its absent value for null, for the empty
\* string and for an input without any digit.
C9_AbsenceHandling ==
  (/\ Len(nOut) >= 1
   /\ \/ nIn = Null
      \/ nIn.t = "str" /\ \A k \in DOMAIN nIn.s : ~AnyScriptDigit(nIn.s[k]))
    => nOut[1] = AbsentOf(nFn)

\* C10: normalize(normalize(x)) = normalize(x) for every normalizer.
C10_Idempotence == Len(nOut) = 2 => nOut[2] = nOut[1]

C10_Witness ==
  /\ Len(nOut) = 2
  /\ nFn = "normalizeIdNumber"
  /\ nIn = Str(<<"a1", "-">>)
  /\ nOut[1] = Str(<<"1">>)

\* the whole value a property holds, as text
WholeValue(prop) ==
  IF prop.type \in {"title", "rich_text"} THEN JoinRuns(prop.runs, <<>>)
  ELSE IF prop.v.t = "null" THEN <<>> ELSE ToStringJS(prop.v)

\* the identifier a record bears: the canonical key of the first identifier
\* field of the record that holds one, <<>> when there is none
IdentifierOf(props) ==
  LET held == {k \in DOMAIN props :
                 /\ props[k].name \in Range(possibleFields)
                 /\ CanonicalKey(Str(WholeValue(props[k].prop))) # <<>>}
  IN IF held = {} THEN <<>>
     ELSE CanonicalKey(Str(WholeValue(props[CHOOSE k \in held : \A m \in held : k <= m].prop)))

\* every employee bears an identifier and no two bear the same one
DistinctIdentifiers ==
  /\ \A i \in DOMAIN employees : IdentifierOf(employees[i].props) # <<>>
  /\ \A i, j \in DOMAIN employees :
       i # j => IdentifierOf(employees[i].props) # IdentifierOf(employees[j].props)

\* the index builder has read the last page of the employee table
IndexBuilt == pc \in {"requests", "loop", "done"}

FixIndexBuilt == fpc \in {"query", "rows", "update", "done"}

\* C11: for an employee table whose records bear pairwise distinct,
\* non-empty identifiers the finished index has one entry per record, in
\* fetchEmployees and in buildEmployeeIndex.
C11_IndexUniqueness ==
  /\ (IndexBuilt /\ DistinctIdentifiers) => Cardinality(DOMAIN employeesMap) = Len(employees)
  /\ (FixIndexBuilt /\ DistinctIdentifiers) => Cardinality(DOMAIN fIndex) = Len(employees)

\* the key buildEmployeeIndex files an employee under, Null for none
FixKeyOf(record) == getCivilIdFromProperty(PropOf(record.props, PREFERRED_EMPLOYEE_ID_PROP))

\* C12: when two employee records get the same key, the index builder has
\* printed a message about the collision of that key by the time the index
\* is built; the messages of the code are those of diag and fDiag, and a
\* line printed alike for a first insert is not a collision message.
C12_CollisionVisibility ==
  /\ IndexBuilt =>
       \A i, j \in DOMAIN employees :
         (/\ i < j
          /\ ~Falsy(extractIdNumber(employees[i].props))
          /\ ~Falsy(extractIdNumber(employees[j].props))
          /\ KeyOf(employees[i]) = KeyOf(employees[j]))
           => \E k \in DOMAIN diag :
                diag[k].kind = "collision" /\ diag[k].key = KeyOf(employees[j])
  /\ FixIndexBuilt =>
       \A i, j \in DOMAIN employees :
         (/\ i < j
          /\ FixKeyOf(employees[i]) # Null
          /\ FixKeyOf(employees[i]) = FixKeyOf(employees[j]))
           => \E k \in DOMAIN fDiag :
                fDiag[k].kind = "collision" /\ fDiag[k].key = FixKeyOf(employees[j]).s

\* C13: once the wrapped call has failed with an error that is not a
\* rate-limit signal, the wrapper has raised that error and the call is
\* not invoked again.
C13_NoRetryOfOtherErrors ==
  \A k \in DOMAIN wErrs :
    wErrs[k] = "other" =>
      /\ wInvocations = k
      /\ wResult = [state |-> "raised", attempt |-> k, error |-> "other"]

\* the first two attempts of a wrapper called with its default ceiling
\* failed with a rate-limit error
TwoRateLimits ==
  /\ wArg = -1
  /\ Len(wErrs) >= 2
  /\ wErrs[1] = "rate" /\ wErrs[2] = "rate"

\* C14: with the default ceiling, after rate-limit errors on the 1st and
\* 2nd attempt the wrapper is still trying, two waits were made and the
\* second is longer than the first; if the 3rd attempt succeeds the wrapper
\* returns its result after exactly three invocations.
C14_RetrySuccess ==
  TwoRateLimits =>
    /\ Len(wWaits) >= 2
    /\ wWaits[2] > wWaits[1]
    /\ Len(wErrs) = 2 => wResult.state \in {"running", "returned"}
    /\ (Len(wErrs) = 2 /\ wResult.state = "returned") =>
         wInvocations = 3 /\ wResult.attempt = 3

C14_Witness ==
  /\ wFn = "withRetry"
  /\ wArg = -1
  /\ wErrs = <<"rate", "rate">>
  /\ wResult = [state |-> "returned", attempt |-> 3, error |-> "none"]
  /\ wWaits = <<2000, 4000>>

\* C15: a call that fails with a rate-limit error on every attempt is
\* invoked exactly n times for the ceiling n, with n - 1 waits, each wait
\* the double of the one before it or the cap once the double reaches it,
\* and the rate-limit error is raised.
C15_BackoffShape ==
  (wResult.state = "raised" /\ \A k \in DOMAIN wErrs : wErrs[k] = "rate") =>
    /\ wInvocations = Ceiling(wFn, wArg)
    /\ Len(wWaits) = Ceiling(wFn, wArg) - 1
    /\ wResult.error = "rate"
    /\ \A k \in 1..(Len(wWaits) - 1) :
         \/ wWaits[k + 1] = 2 * wWaits[k]
         \/ wFn # "apiCallWithRetry" /\ 2 * wWaits[k] >= WaitCap /\ wWaits[k + 1] = WaitCap

\* the request has an identifier and the index has an entry for its key
Matched(r) == ~Falsy(extractIdNumber(r.props)) /\ KeyOf(r) \in DOMAIN employeesMap

\* the property set updateLeaveRequestSmart computes for a request as read
Computed(r) ==
  IF ~Matched(r) THEN {}
  ELSE LET employeePageId == employeesMap[KeyOf(r)]
           needsRelation == needsRelationUpdate(relationPropName, r, employeePageId)
       IN PlanProperties(r.id, IF needsRelation THEN employeePageId ELSE NoName,
                         relationPropName, statusProp, needsStatusUpdate(statusProp, r))

CallsFor(pageId) == {c \in DOMAIN calls : calls[c].page_id = pageId}

\* C16: a processed request whose computed property set is empty has no
\* pages.update call; any other processed request has exactly one, and
\* that call carries exactly the computed set.
C16_OneCallPerPlan ==
  pc \in {"loop", "done"} =>
    \A k \in 1..(idx - 1) :
      LET r == leaveRequests[k]
      IN IF Computed(r) = {}
         THEN CallsFor(r.id) = {}
         ELSE /\ Cardinality(CallsFor(r.id)) = 1
              /\ \A c \in CallsFor(r.id) : calls[c].properties = Computed(r)

C16_Witness ==
  /\ pc = "done"
  /\ Len(leaveRequests) = 2
  /\ Len(calls) = 1
  /\ Cardinality(calls[1].properties) = 2
  /\ \E k \in 1..2 : Matched(leaveRequests[k]) /\ Computed(leaveRequests[k]) = {}

\* the processed requests that have no identifier or no index entry
Unmatched == {k \in 1..(idx - 1) : ~Matched(leaveRequests[k])}

\* the processed requests that are matched and need nothing
UpToDate ==
  {k \in 1..(idx - 1) :
     /\ Matched(leaveRequests[k])
     /\ ~needsRelationUpdate(relationPropName, leaveRequests[k],
                             employeesMap[KeyOf(leaveRequests[k])])
     /\ ~needsStatusUpdate(statusProp, leaveRequests[k])}

\* C17: a request without an identifier or without an index entry gets no
\* update call and adds exactly one to the skipped counter; the loop goes on
\* to the last request and the run ends with exit status 0; a run fails
\* only before its first request.
C17_UnmatchedIsSkipped ==
  /\ pc \in {"loop", "done"} =>
       /\ skippedCount = Cardinality(Unmatched) + Cardinality(UpToDate)
       /\ \A k \in Unmatched : CallsFor(leaveRequests[k].id) = {}
       /\ pc = "loop" => exitCode = -1
       /\ pc = "done" =>
            /\ exitCode = 0
            /\ leaveRequests # <<>> => idx = Len(leaveRequests) + 1
  /\ pc = "failed" => idx = 1

C17_Witness ==
  /\ pc = "done"
  /\ Len(leaveRequests) = 2
  /\ Falsy(extractIdNumber(leaveRequests[1].props))
  /\ Matched(leaveRequests[2])
  /\ Len(calls) = 1
  /\ calls[1].page_id = leaveRequests[2].id
  /\ skippedCount = 1

\* the schema of the leave-request table has no field of kind relation
NoRelationField == \A k \in DOMAIN schema : schema[k].type # "relation"

\* positions of the messages where the retry ceiling was exhausted on a
\* pages.update: "Rate limit exceeded" followed by "Error updating"
ExhaustedUpdates ==
  {k \in 1..(Len(sDiag) - 1) : /\ sDiag[k].kind = "rate_limit_exceeded"
                                /\ sDiag[k + 1].kind = "error_updating"}

ErrorEvents == {k \in DOMAIN sDiag : sDiag[k].kind = "error_updating"}

\* C18: in NotionSync a pages.update whose retry ceiling is exhausted is
\* logged and counted in errorCount, the for loop goes on with the next
\* request and the failure of a run never comes from a pages.update; a
\* query that fails inside buildEmployeeIndex ends the run with exit
\* status 1 and no pages.update request was sent
C18_RateLimitExhaustion ==
  /\ errorCount = Cardinality(ErrorEvents)
  /\ (sDiag # <<>> /\ sDiag[Len(sDiag)].kind = "error_updating") =>
       sPc \in {"rows", "query", "update"} /\ sExit = -1
  /\ sPc = "failed" => sPlan = NoPlan /\ sFatal # "none" /\ sExit = 1
  /\ sExit = 1 => sPc = "failed"
  /\ sFatal = "buildEmployeeIndex" => sPc = "failed" /\ sExit = 1 /\ sCalls = <<>>

\* a run that exhausted the ceiling on one request, updated a later one and
\* ended with exit status 0
C18_Witness ==
  /\ sPc = "done"
  /\ sExit = 0
  /\ errorCount >= 1
  /\ \E k \in ExhaustedUpdates : \E j \in (k + 2)..Len(sDiag) : sDiag[j].kind = "updated"

\* C19: in a run over a schema without any relation field no pages.update
\* call is issued and the run does not complete: it ends with an error.
C19_NoRelationIsFatal ==
  (NoRelationField /\ pc \notin {"idle", "schema"}) =>
    /\ calls = <<>>
    /\ pc # "done"

\* C20: a relation list that was non-empty when the run started is the same
\* afterwards, and a relation is sent only for a request whose relation
\* field was empty.
C20_OnlyFillWhenEmpty ==
  /\ \A k \in DOMAIN requests0 : \A f \in DOMAIN requests0[k].rel :
       requests0[k].rel[f] # <<>> => requests[k].rel[f] = requests0[k].rel[f]
  /\ \A c \in DOMAIN calls : \A e \in RelationEntries(calls[c]) :
       PageRead(calls[c].page_id).rel[e.field] = <<>>

\* the least element of a non-empty set of positions
Lowest(S) == CHOOSE k \in S : \A m \in S : k <= m

RelationPositions(props) == {k \in DOMAIN props : props[k].type = "relation"}

DirectPositions(props) ==
  {k \in RelationPositions(props) : props[k].target = EMPLOYEES_DB_ID}

\* C21: findEmployeeRelationPropName returns the first field, in schema
\* order, of kind relation whose target is the employees database; without
\* such a field the first relation field of any target; null exactly when
\* the schema has no relation field; and the same result on every call
C21_RelationDetection ==
  hFn = "findEmployeeRelationPropName" =>
    \A i \in DOMAIN hOut :
      /\ DirectPositions(hIn.props) # {} =>
           hOut[i] = hIn.props[Lowest(DirectPositions(hIn.props))].name
      /\ (DirectPositions(hIn.props) = {} /\ RelationPositions(hIn.props) # {}) =>
           hOut[i] = hIn.props[Lowest(RelationPositions(hIn.props))].name
      /\ (hOut[i] = NoName) <=> (RelationPositions(hIn.props) = {})
      /\ hOut[i] = hOut[1]

\* two calls on a schema whose first relation field points elsewhere and
\* whose later one points to the employees database
C21_Witness ==
  /\ hFn = "findEmployeeRelationPropName"
  /\ Len(hOut) = 2
  /\ DirectPositions(hIn.props) # {}
  /\ Lowest(RelationPositions(hIn.props)) < Lowest(DirectPositions(hIn.props))
  /\ hOut[2] = hIn.props[Lowest(DirectPositions(hIn.props))].name

StatusPositions(props) == {k \in DOMAIN props : props[k].type = "status"}

SelectPositions(props) == {k \in DOMAIN props : props[k].type = "select"}

PreferredPositions(props) ==
  {k \in DOMAIN props : /\ props[k].name = PREFERRED_STATUS_PROP
                        /\ props[k].type \in {"status", "select"}}

\* C22: detectLeaveSchema chooses the field with the preferred label when
\* it is of kind status or select; otherwise the first field of kind
\* status; a field of kind select only when the schema has no field of
\* kind status, wherever the fields stand in the schema
C22_StatusDetectionOrder ==
  hFn = "detectLeaveSchema" =>
    \A i \in DOMAIN hOut :
      LET sp == hOut[i].statusProp
          p == hIn.props
      IN /\ PreferredPositions(p) # {} => sp.name = PREFERRED_STATUS_PROP
         /\ (PreferredPositions(p) = {} /\ StatusPositions(p) # {}) =>
              sp.name = p[Lowest(StatusPositions(p))].name
         /\ (PreferredPositions(p) = {} /\ StatusPositions(p) = {}
               /\ SelectPositions(p) # {}) =>
              sp.name = p[Lowest(SelectPositions(p))].name
         /\ (PreferredPositions(p) = {} /\ sp.kind = "select") => StatusPositions(p) = {}

DesiredPositions(options) ==
  {k \in DOMAIN options : normalizeLabel(options[k].name) = normalizeLabel(desired)}

ToDoPositions(options) == {k \in DOMAIN options : options[k].group = "to_do"}

\* C23: pickPendingName returns (1) the option whose name is the default
\* status up to white space and case; else (2) for a select the default
\* status itself; else (3) for a status the first option of the to_do group;
\* else (4) the first option; else (5) no name.  On the options
\* [default, approve, reject] of a status field it returns the default
C23_DefaultStatusSelection ==
  hFn = "pickPendingName" =>
    \A i \in DOMAIN hOut :
      LET o == hIn.options
          out == hOut[i]
      IN /\ out.name =
              (IF DesiredPositions(o) # {} THEN o[Lowest(DesiredPositions(o))].name
               ELSE IF hIn.kind = "select" THEN desired
               ELSE IF ToDoPositions(o) # {} THEN o[Lowest(ToDoPositions(o))].name
               ELSE IF o # <<>> THEN o[1].name
               ELSE <<>>)
         /\ (hIn.kind = "status" /\ o = PendingOptions) => out.name = desired

\* a status field whose options hold no default status and whose to_do
\* option is not the first one
C23_Witness ==
  /\ hFn = "pickPendingName"
  /\ hIn.kind = "status"
  /\ hOut # <<>>
  /\ DesiredPositions(hIn.options) = {}
  /\ ToDoPositions(hIn.options) # {}
  /\ Lowest(ToDoPositions(hIn.options)) > 1
  /\ hOut[1].name = hIn.options[Lowest(ToDoPositions(hIn.options))].name

\* the table in another order of its records
Reordered(table, perm) == [k \in DOMAIN table |-> table[perm[k]]]

\* C24: the index built from the employee table is the same for every order
\* in which the store returns the records, also when two employees share a
\* canonical key
C24_OrderIndependence ==
  /\ IndexBuilt =>
       \A perm \in Permutations(DOMAIN employees) :
         IndexPage(EmptyMap, Reordered(employees, perm), 1) = employeesMap
  /\ FixIndexBuilt =>
       \A perm \in Permutations(DOMAIN employees) :
         IndexRows(EmptyMap, Reordered(employees, perm), PREFERRED_EMPLOYEE_ID_PROP, 1) = fIndex

\* the position of a page among the leave requests read by the run
PositionRead(pageId) == CHOOSE k \in DOMAIN leaveRequests : leaveRequests[k].id = pageId

\* every employee with a usable identifier is in the index
WholeTableIndexed ==
  \A k \in DOMAIN employees :
    ~Falsy(extractIdNumber(employees[k].props)) => KeyOf(employees[k]) \in DOMAIN employeesMap

\* C25: syncNotionTables is strictly sequential: a step makes at most one
\* remote call (an update is never issued in the step that reads a page, and
\* never two at once); the whole employee table is read and indexed before
\* the first update is issued; updates are issued in the order in which
\* pagination returned the leave requests
C25_SequentialPipeline ==
  /\ [](/\ calls # <<>> => (pc \in {"loop", "done"} /\ WholeTableIndexed)
        /\ \A k \in DOMAIN leaveRequests : leaveRequests[k].id = requests[k].id
        /\ \A i, j \in DOMAIN calls :
             i < j => PositionRead(calls[i].page_id) < PositionRead(calls[j].page_id))
  /\ [][(calls' # calls /\ run' = run) =>
          /\ Len(calls') = Len(calls) + 1
          /\ leaveRequests' = leaveRequests
          /\ employeesMap' = employeesMap
          /\ cursor' = cursor]_vars

\* two employee pages were read, then the two requests were updated in the
\* order of the table
C25_Witness ==
  /\ pc = "done"
  /\ Len(employees) = 2
  /\ DOMAIN employeesMap = {KeyOf(employees[1]), KeyOf(employees[2])}
  /\ KeyOf(employees[1]) # KeyOf(employees[2])
  /\ Len(calls) = 2
  /\ calls[1].page_id = "r1"
  /\ calls[2].page_id = "r2"

\* the run printed its summary
SummaryReached == pc = "done" /\ diag # <<>> /\ diag[Len(diag)].kind = "summary"

\* C26: at the end of a run that reaches the summary, updatedCount +
\* skippedCount is the number of leave requests read: every request is in
\* exactly one of the two counts, a request whose update failed included
C26_SummaryAccounting ==
  SummaryReached => updatedCount + skippedCount = Len(leaveRequests)

\* a record differs from what it was at most in the two detected fields
OnlyDetectedFieldsWritten(before, after) ==
  /\ after.id = before.id
  /\ after.props = before.props
  /\ \A f \in DOMAIN before.rel : f # relationPropName => after.rel[f] = before.rel[f]
  /\ \A f \in DOMAIN before.st : f # statusProp.name => after.st[f] = before.st[f]

\* C27: a run of src/sync.js writes to the store only through pages.update
\* on leave requests, each call carries only the detected relation field
\* and/or the detected status field, and no employee record and no other
\* field of a leave request changes
C27_WriteFrame ==
  /\ [](\A c \in DOMAIN calls :
          /\ \E k \in DOMAIN leaveRequests : leaveRequests[k].id = calls[c].page_id
          /\ \A e \in calls[c].properties :
               \/ e.kind = "relation" /\ e.field = relationPropName
               \/ e.kind # "relation" /\ e.field = statusProp.name)
  /\ [][/\ employees' = employees
        /\ DOMAIN requests' = DOMAIN requests
        /\ \A k \in DOMAIN requests : OnlyDetectedFieldsWritten(requests[k], requests'[k])
        /\ requests' # requests => Len(calls') = Len(calls) + 1]_vars

\* a successful update of a request of a schema that has a second relation
\* field besides the detected one
C27_Witness ==
  /\ calls # <<>>
  /\ calls[1].ok
  /\ requests # requests0
  /\ \E k \in DOMAIN schema : schema[k].type = "relation" /\ schema[k].name # relationPropName

\* the e-mails delivered for a page and a status
DeliveredFor(pageId, status) ==
  {k \in DOMAIN mDelivered : mDelivered[k].page_id = pageId /\ mDelivered[k].status = status}

\* C28: over any sequence of runs of the e-mail script, runs in which
\* sendEmail or setEmailFlag fails included, a leave request whose status
\* and address do not change gets at most one delivered e-mail per status
C28_AtMostOncePerStatus ==
  \A k \in DOMAIN mTable :
    Cardinality(DeliveredFor(mTable[k].id, mTable[k].status)) <= 1

\* a page the run has to pass over: no status, no address, or a flag whose
\* text is the status
Skippable(page) ==
  \/ page.status = <<>>
  \/ page.email = ""
  \/ /\ page.flag # <<>>
     /\ Trim(JoinRuns(page.flag, <<>>)) = Trim(page.status)

\* C29: the flag of a request is written only after sendEmail for that
\* request succeeded in the same run, and the value written is the status
\* the e-mail was sent for; a request that is skipped or whose send failed
\* keeps its flag, and no e-mail is sent for a skipped request
C29_FlagAfterSend ==
  /\ [](\A w \in DOMAIN mFlagWrites :
          \E k \in DOMAIN mDelivered :
            /\ mDelivered[k].page_id = mFlagWrites[w].page_id
            /\ mDelivered[k].run = mFlagWrites[w].run
            /\ mDelivered[k].status = mFlagWrites[w].text)
  /\ [][/\ mTable' # mTable =>
             /\ mPc = "flag"
             /\ mDelivered # <<>>
             /\ mDelivered[Len(mDelivered)].page_id = mRows[mRow].id
             /\ mDelivered[Len(mDelivered)].run = mRun
             /\ \A k \in DOMAIN mTable :
                  mTable'[k] = IF mTable[k].id = mRows[mRow].id
                               THEN [mTable[k] EXCEPT
                                       !.flag = <<mDelivered[Len(mDelivered)].status>>]
                               ELSE mTable[k]
        /\ (mPc = "loop" /\ mRow <= Len(mRows) /\ Skippable(mRows[mRow])) =>
             (mDelivered' = mDelivered /\ mTable' = mTable)
        /\ skipped' = skipped + 1 => (mDelivered' = mDelivered /\ mTable' = mTable)]_vars

\* a run that sent an e-mail and wrote the status into the flag, then a
\* second run that skipped the request
C29_Witness ==
  /\ mRun = 2
  /\ mPc = "done"
  /\ skipped = 1
  /\ Len(mDelivered) = 1
  /\ Len(mFlagWrites) = 1
  /\ mDelivered[1].run = 1
  /\ mTable[1].flag = <<mTable[1].status>>

\* the relation entries of a plan carry the name of a relation field of
\* the page the plan is for
RelationEntriesExist(plan) ==
  \A e \in plan.properties :
    e.kind = "relation" =>
      \E k \in DOMAIN requests : requests[k].id = plan.page_id /\ e.field \in DOMAIN requests[k].rel

\* C30: in NotionSync.syncLeaveRequests a relation entry enters the plan
\* of a request only under the name of a relation field that exists on the
\* request; when the request has none of the candidate relation fields its
\* plan has no relation entry, also when its identifier is in the index
C30_RelationEntryNeedsField ==
  /\ sPlan # NoPlan => RelationEntriesExist(sPlan)
  /\ \A c \in DOMAIN sCalls : RelationEntriesExist(sCalls[c])

====
